---------------------------- MODULE Spec2Model ----------------------------
(***************************************************************************)
(* Payment-to-identity binding and access control of the marathon bot.     *)
(*                                                                         *)
(* The database tables (payments, users, current_group, access_logs) are   *)
(* the state; every aiogram / aiohttp handler is one action.  Text values  *)
(* (emails, order ids, phones, statuses, telegram ids) are sequences of    *)
(* one-character strings, so that digit filtering, suffix matching, "@"    *)
(* detection and lower-casing are computed as the code computes them.      *)
(* Python None and the empty string are both the empty sequence: the code  *)
(* only ever tests these fields for truthiness or compares them with a     *)
(* non-empty text.  A NULL payment_id is 0 (row ids start at 1).           *)
(***************************************************************************)
EXTENDS Integers, Sequences, FiniteSets, TLC

VARIABLES
    payments,   \* table payments: sequence of rows, row id = index
    users,      \* table users: set of rows, telegram_id unique
    groups,     \* table current_group: sequence of rows, row id = index
    logs,       \* table access_logs: sequence of rows, row id = index
    sessions,   \* per sender: uncommitted SQLAlchemy session of a suspended handler
    fsm,        \* per sender: the FSMContext state of the conversation
    data,       \* per sender: the FSMContext data of the conversation
    reply,      \* what the last handler answered to its sender
    call,       \* the transport call the last handler made, and its outcome
    config      \* app.config values read at startup

vars == <<payments, users, groups, logs, sessions, fsm, data, reply, call, config>>

db == <<payments, users, groups, logs>>

----------------------------------------------------------------------------
(* Bounds of the model *)

\* rows of current_group and of access_logs under Spec
MaxGroups == 1
MaxLogs == 2

\* rows of current_group under SpecBind and SpecConc
MaxBindGroups == 2

----------------------------------------------------------------------------
(* Text *)

NULL == <<>>

\* users.payment_id IS NULL; also "no row" for a payment query
NoPayment == 0

Digits == {"0", "1", "2", "3", "4", "5", "6", "7", "8", "9"}

IsDigit(ch) == ch \in Digits

\* str.isdigit(): non-empty and every character a digit
isdigit(value) == value # <<>> /\ \A i \in DOMAIN value : IsDigit(value[i])

HasAt(text) == \E i \in DOMAIN text : text[i] = "@"

\* SQL: column LIKE '%' || suffix ; NULL never matches
endswith(value, suffix) ==
    /\ value # NULL
    /\ Len(value) >= Len(suffix)
    /\ SubSeq(value, Len(value) - Len(suffix) + 1, Len(value)) = suffix

normalize_phone(value) == SelectSeq(value, IsDigit)

phone_variants(value) ==
    LET digits == normalize_phone(value)
    IN  IF digits = <<>>
        THEN <<NULL, NULL>>
        ELSE <<digits,
               IF Len(digits) >= 10
               THEN SubSeq(digits, Len(digits) - 9, Len(digits))
               ELSE digits>>

\* str(message.from_user.id) for the identities of the model
DigitChar(n) ==
    CASE n = 0 -> "0" [] n = 1 -> "1" [] n = 2 -> "2" [] n = 3 -> "3"
      [] n = 4 -> "4" [] n = 5 -> "5" [] n = 6 -> "6" [] n = 7 -> "7"
      [] n = 8 -> "8" [] OTHER -> "9"

Str(n) == <<DigitChar(n)>>

DigitValue(ch) == CHOOSE n \in 0..9 : DigitChar(n) = ch

\* int(text) for a text of digits
RECURSIVE ToInt(_)
ToInt(text) ==
    IF text = <<>> THEN 0
    ELSE 10 * ToInt(SubSeq(text, 1, Len(text) - 1)) + DigitValue(text[Len(text)])

LowerChar(ch) ==
    CASE ch = "A" -> "a" [] ch = "C" -> "c" [] ch = "D" -> "d" [] ch = "E" -> "e"
      [] ch = "F" -> "f" [] ch = "I" -> "i" [] ch = "L" -> "l" [] ch = "N" -> "n"
      [] ch = "P" -> "p" [] ch = "R" -> "r" [] ch = "S" -> "s" [] ch = "U" -> "u"
      [] OTHER -> ch

lower(value) == [i \in DOMAIN value |-> LowerChar(value[i])]

RECURSIVE lstrip(_)
lstrip(value) ==
    IF value # <<>> /\ Head(value) = " " THEN lstrip(Tail(value)) ELSE value

RECURSIVE rstrip(_)
rstrip(value) ==
    IF value # <<>> /\ value[Len(value)] = " "
    THEN rstrip(SubSeq(value, 1, Len(value) - 1))
    ELSE value

strip(value) == rstrip(lstrip(value))

PAID == <<"p", "a", "i", "d">>
FAILED == <<"f", "a", "i", "l", "e", "d">>
PENDING == <<"p", "e", "n", "d", "i", "n", "g">>
CANCELLED == <<"c", "a", "n", "c", "e", "l", "l", "e", "d">>
CANCELED == <<"c", "a", "n", "c", "e", "l", "e", "d">>
SUCCESS == <<"s", "u", "c", "c", "e", "s", "s">>
SUCCEEDED == <<"s", "u", "c", "c", "e", "e", "d", "e", "d">>
COMPLETED == <<"c", "o", "m", "p", "l", "e", "t", "e", "d">>
UNKNOWN == <<"u", "n", "k", "n", "o", "w", "n">>

----------------------------------------------------------------------------
(* Inputs of the model *)

EMAIL1 == <<"a", "@", "b">>
EMAIL2 == <<"c", "@", "d">>
ORDER1 == <<"A", "1">>
ORDER2 == <<"A", "2">>
LINK1 == <<"t", ".", "m", "e", "/", "x">>
LINK2 == <<"t", ".", "m", "e", "/", "y">>
NAME1 == <<"G", "1">>
NAME2 == <<"G", "2">>

Senders == {1, 2}
Chats == {1, 2}
Times == {1}
OrderIds == {ORDER1, ORDER2}
Identifiers == {EMAIL1, ORDER1, ORDER2}
GroupInputs == {<<LINK1, NAME1>>, <<LINK2, NAME2>>}

\* event.chat.title of the chats of the model
ChatTitle(chat) == IF chat = 1 THEN NAME1 ELSE NAME2

----------------------------------------------------------------------------
(* Tables and queries *)

Payment(order_id, email, phone, status, product_name, created_at, used) ==
    [order_id |-> order_id, email |-> email, phone |-> phone, status |-> status,
     product_name |-> product_name, created_at |-> created_at, used |-> used]

User(telegram_id, payment_id) ==
    [telegram_id |-> telegram_id, payment_id |-> payment_id]

CurrentGroup(chat_id, group_name, invite_link) ==
    [chat_id |-> chat_id, group_name |-> group_name, invite_link |-> invite_link]

AccessLog(telegram_id, email, order_id, group_name, group_id, action, timestamp, comment) ==
    [telegram_id |-> telegram_id, email |-> email, order_id |-> order_id,
     group_name |-> group_name, group_id |-> group_id, action |-> action,
     timestamp |-> timestamp, comment |-> comment]

\* Every query takes the tables it reads, so that a handler can also be
\* evaluated on the tables another handler leaves behind.

PaymentIds(pay) == DOMAIN pay

\* db.query(Payment).filter(Payment.order_id == order_id).first()
PaymentByOrder(pay, order_id) ==
    IF \E i \in PaymentIds(pay) : pay[i].order_id = order_id
    THEN CHOOSE i \in PaymentIds(pay) : pay[i].order_id = order_id
    ELSE NoPayment

\* db.query(User).filter(User.telegram_id == telegram_id)
UsersByTelegram(usr, telegram_id) == {u \in usr : u.telegram_id = telegram_id}

\* db.query(User).filter(User.payment_id == payment_id)
UsersByPayment(usr, payment_id) == {u \in usr : u.payment_id = payment_id}

\* db.query(CurrentGroup).order_by(CurrentGroup.id.desc()).first(), 0 when none
CurrentGroupId(grp) == Len(grp)

\* the suffix criterion applied to queries of any length
PhoneFiltersAnySuffix(p, text) ==
    LET pv == phone_variants(text)
    IN  \/ pv[1] # NULL /\ p.phone = pv[1]
        \/ pv[2] # NULL /\ endswith(p.phone, pv[2])

\* the phone criteria shared by every lookup: exact digits, last-10 suffix
PhoneFilters(p, text) ==
    LET pv == phone_variants(text)
    IN  \/ pv[1] # NULL /\ p.phone = pv[1]
        \/ pv[2] # NULL /\ Len(pv[2]) >= 10 /\ endswith(p.phone, pv[2])

\* administrative lookup: email, order id and phone criteria, OR-ed
AdminFilter(p, text) ==
    \/ p.email = text
    \/ p.order_id = text
    \/ PhoneFilters(p, text)

\* self-service lookup: email only when the text holds "@"
ClaimFilter(p, text) ==
    IF HasAt(text)
    THEN p.email = text
    ELSE p.order_id = text \/ PhoneFilters(p, text)

\* .order_by(Payment.id.desc()).first()
LatestById(ids) ==
    IF ids = {} THEN NoPayment ELSE CHOOSE i \in ids : \A j \in ids : j <= i

\* .order_by(Payment.created_at.desc(), Payment.id.desc()).first()
LatestByCreated(pay, ids) ==
    IF ids = {} THEN NoPayment
    ELSE CHOOSE i \in ids : \A j \in ids :
            \/ pay[j].created_at < pay[i].created_at
            \/ pay[j].created_at = pay[i].created_at /\ j <= i

AdminLookup(pay, text) ==
    LatestById({i \in PaymentIds(pay) : AdminFilter(pay[i], text)})

\* the primary query without its status filter
ClaimLookupAnyStatus(pay, text) ==
    LatestByCreated(pay, {i \in PaymentIds(pay) :
        /\ ClaimFilter(pay[i], text)
        /\ ~pay[i].used})

\* the primary query of the self-service path: paid and unused
ClaimLookup(pay, text) ==
    LatestByCreated(pay, {i \in PaymentIds(pay) :
        /\ ClaimFilter(pay[i], text)
        /\ pay[i].status = PAID
        /\ ~pay[i].used})

\* the probe of the self-service path: paid, used or not
UsedLookup(pay, text) ==
    LatestByCreated(pay, {i \in PaymentIds(pay) :
        /\ ClaimFilter(pay[i], text)
        /\ pay[i].status = PAID})

\* .first() of a query with no ORDER BY: any matching row, NoRow when none
NoRow == User(NULL, NoPayment)

First(rows) == IF rows = {} THEN {NoRow} ELSE rows

----------------------------------------------------------------------------
(* Handler outcomes *)

Answer(kind, invite_link, group_name) ==
    [kind |-> kind, invite_link |-> invite_link, group_name |-> group_name]

Reply(kind) == Answer(kind, NULL, NULL)

\* the handler returned, or raised, without answering
NoReply == Reply("none")

Call(op, chat_id, user_id, ok) ==
    [op |-> op, chat_id |-> chat_id, user_id |-> user_id, ok |-> ok]

NoCall == Call("none", 0, 0, TRUE)

NoSession == [pc |-> "idle", payment |-> NoPayment, insert |-> FALSE]

\* the FSMContext data after state.clear(): no key is set
NoData == [invite_link |-> NULL, export_start |-> NULL, export_end |-> NULL, rebind_key |-> NULL]

Config(webhook_token, admin_ids) ==
    [WEBHOOK_TOKEN |-> webhook_token, ADMIN_IDS |-> admin_ids]

is_admin_anybody(sender) == TRUE

is_admin(sender) == sender \in config.ADMIN_IDS

\* a handler that returns at once: nothing answered, nothing written
Ignored ==
    /\ reply' = NoReply
    /\ call' = NoCall
    /\ UNCHANGED <<db, sessions, fsm, data, config>>

\* a handler that answers and returns before any write
Refused(kind) ==
    /\ reply' = Reply(kind)
    /\ call' = NoCall
    /\ UNCHANGED <<db, sessions, fsm, data, config>>

\* the states of AdminStates, by flow
SetGroupStates == {"set_group_invite", "set_group_name"}
ExportStates == {"export_start", "export_end", "export_group"}
FindStates == {"find_payment"}
RebindStates == {"rebind_key", "rebind_telegram"}

AdminStates ==
    SetGroupStates \cup ExportStates \cup FindStates \cup RebindStates
        \cup {"remove_user", "unban_user"}

\* the admin router tries its handlers in the order they are registered: a
\* message reaches a handler only when the conversation is in none of the
\* states whose handlers are registered before it
Unrouted(sender, earlier) == fsm[sender] \notin earlier

----------------------------------------------------------------------------
(* Webhook ingestion: app/webhooks.py *)

Request(header_token, query_token, body_token, path_token, order_id, email, phone, status, product_name, created_at) ==
    [header_token |-> header_token, query_token |-> query_token,
     body_token |-> body_token, path_token |-> path_token,
     order_id |-> order_id, email |-> email, phone |-> phone, status |-> status,
     product_name |-> product_name, created_at |-> created_at]

\* the first non-empty value of the aliases of a field, stripped
_get_first(value) == strip(value)

\* a parsed timestamp is a positive number; 0 is absent or in neither format
_parse_timestamp(value, now) == IF value = 0 THEN now ELSE value

\* a missing status recorded as `unknown`
_normalize_status_unknown(value) ==
    IF value = NULL THEN UNKNOWN
    ELSE LET normalized == lower(strip(value))
         IN  CASE normalized = SUCCESS -> PAID
               [] normalized = SUCCEEDED -> PAID
               [] normalized = PAID -> PAID
               [] normalized = COMPLETED -> PAID
               [] normalized = CANCELLED -> CANCELLED
               [] normalized = CANCELED -> CANCELLED
               [] normalized = FAILED -> FAILED
               [] normalized = PENDING -> PENDING
               [] OTHER -> normalized

_normalize_status(value) ==
    IF value = NULL THEN PAID
    ELSE LET normalized == lower(strip(value))
         IN  CASE normalized = SUCCESS -> PAID
               [] normalized = SUCCEEDED -> PAID
               [] normalized = PAID -> PAID
               [] normalized = COMPLETED -> PAID
               [] normalized = CANCELLED -> CANCELLED
               [] normalized = CANCELED -> CANCELLED
               [] normalized = FAILED -> FAILED
               [] normalized = PENDING -> PENDING
               [] OTHER -> normalized

_normalize_phone(value) ==
    IF value = NULL THEN NULL ELSE SelectSeq(value, IsDigit)

\* only the header is compared with the token
_is_authorized_header_only(req) ==
    \/ config.WEBHOOK_TOKEN = NULL
    \/ config.WEBHOOK_TOKEN = req.header_token

_is_authorized(req) ==
    \/ config.WEBHOOK_TOKEN = NULL
    \/ config.WEBHOOK_TOKEN \in
          {req.header_token, req.query_token, strip(req.body_token), req.path_token}

\* an upsert that inserts a row whether or not the order is already there
UpsertAlwaysInserts(order_id, email, phone, status, product_name, created_at) ==
    Append(payments,
           Payment(order_id, email, phone, status, product_name, created_at, FALSE))

\* an update that overwrites every field, empty incoming values included
UpsertOverwritesAll(order_id, email, phone, status, product_name, created_at) ==
    LET id == PaymentByOrder(payments, order_id)
    IN  IF id = NoPayment
        THEN Append(payments,
                    Payment(order_id, email, phone, status, product_name, created_at, FALSE))
        ELSE [payments EXCEPT
                ![id].email = email,
                ![id].phone = phone,
                ![id].status = status,
                ![id].product_name = product_name,
                ![id].created_at = created_at]

\* an upsert whose update releases the payment again
UpsertReleases(order_id, email, phone, status, product_name, created_at) ==
    LET id == PaymentByOrder(payments, order_id)
    IN  IF id = NoPayment
        THEN Append(payments,
                    Payment(order_id, email, phone, status, product_name, created_at, FALSE))
        ELSE [payments EXCEPT
                ![id].email = IF email # NULL THEN email ELSE @,
                ![id].phone = IF phone # NULL THEN phone ELSE @,
                ![id].status = status,
                ![id].product_name = IF product_name # NULL THEN product_name ELSE @,
                ![id].created_at = created_at,
                ![id].used = FALSE]

\* the upsert by order_id
Upsert(order_id, email, phone, status, product_name, created_at) ==
    LET id == PaymentByOrder(payments, order_id)
    IN  IF id = NoPayment
        THEN Append(payments,
                    Payment(order_id, email, phone, status, product_name, created_at, FALSE))
        ELSE [payments EXCEPT
                ![id].email = IF email # NULL THEN email ELSE @,
                ![id].phone = IF phone # NULL THEN phone ELSE @,
                ![id].status = status,
                ![id].product_name = IF product_name # NULL THEN product_name ELSE @,
                ![id].created_at = created_at]

handle_prodamus(req, now) ==
    LET order_id == _get_first(req.order_id)
        email == _get_first(req.email)
        phone == _normalize_phone(_get_first(req.phone))
        status_raw == _get_first(req.status)
        product_name == _get_first(req.product_name)
    IN  /\ call' = NoCall
        /\ UNCHANGED <<users, groups, logs, sessions, fsm, data, config>>
        /\ IF ~_is_authorized(req)
           THEN reply' = Reply("401") /\ UNCHANGED payments
           ELSE IF order_id = NULL \/ (email = NULL /\ phone = NULL)
           THEN reply' = Reply("400") /\ UNCHANGED payments
           ELSE /\ payments' = Upsert(order_id, email, phone,
                                      _normalize_status(status_raw), product_name,
                                      _parse_timestamp(req.created_at, now))
                /\ reply' = Reply("200")

----------------------------------------------------------------------------
(* Commands of app/main.py *)

\* /add_test_payment <order_id> <email> [phone]
add_test_payment(sender, order_id, email, phone_raw, now) ==
    IF ~is_admin(sender)
    THEN Ignored
    ELSE IF PaymentByOrder(payments, order_id) # NoPayment
    THEN \* UNIQUE(order_id): commit raises IntegrityError, nothing is answered
         Ignored
    ELSE /\ payments' = Append(payments,
                Payment(order_id, email, normalize_phone(phone_raw), PAID, NULL, now, FALSE))
         /\ reply' = Reply("test_payment_added")
         /\ call' = NoCall
         /\ UNCHANGED <<users, groups, logs, sessions, fsm, data, config>>

\* /set_group <invite_link> <group name>
set_group(sender, invite_link, group_name) ==
    IF ~is_admin(sender)
    THEN Ignored
    ELSE /\ groups' = Append(groups, CurrentGroup(NULL, group_name, invite_link))
         /\ reply' = Answer("group_set", invite_link, group_name)
         /\ call' = NoCall
         /\ UNCHANGED <<payments, users, logs, sessions, fsm, data, config>>

----------------------------------------------------------------------------
(* Self-service claim: handle_email_or_order, app/main.py *)

\* the ownership check: a row of another identity holds the payment
OwnedByOther(existing_user, sender) ==
    existing_user # NoRow /\ existing_user.telegram_id # Str(sender)

\* the users table after the flush of the handler's session: INSERT when the
\* session found no row of the identity, UPDATE of payment_id otherwise
BoundUsers(usr, telegram_id, payment, insert) ==
    IF insert
    THEN usr \cup {User(telegram_id, payment)}
    ELSE {IF u.telegram_id = telegram_id THEN User(telegram_id, payment) ELSE u : u \in usr}

\* the payment is left as it was: used is not set
NotConsumed(pay, payment) == pay

\* payment.used = True
Consumed(pay, payment) == [pay EXCEPT ![payment].used = TRUE]

\* what a run of the handler leaves: the two tables it writes and its answer
Outcome(pay, usr, answer) == [payments |-> pay, users |-> usr, reply |-> answer]

\* a refusal that still registers the sender, as a row holding no payment
ClaimRefusedRegisters(pay, usr, sender, kind) ==
    [payments |-> pay,
     users |-> IF UsersByTelegram(usr, Str(sender)) = {}
               THEN usr \cup {User(Str(sender), NoPayment)} ELSE usr,
     reply |-> Reply(kind)]

\* the handler answers and returns with nothing written
ClaimRefused(pay, usr, sender, kind) == Outcome(pay, usr, Reply(kind))

\* db.commit() of the claim: both writes or, when the INSERT breaks
\* UNIQUE(telegram_id), neither
CommitClaim(pay, usr, telegram_id, payment, insert, answer) ==
    IF insert /\ UsersByTelegram(usr, telegram_id) # {}
    THEN Outcome(pay, usr, answer)
    ELSE Outcome(Consumed(pay, payment),
                 BoundUsers(usr, telegram_id, payment, insert), answer)

\* the invite of the oldest group row instead of the most recent
InviteAnswerOldest(grp) == Answer("invite", grp[1].invite_link, grp[1].group_name)

\* the answer after a successful claim when a group is configured
InviteAnswer(grp) ==
    Answer("invite", grp[CurrentGroupId(grp)].invite_link,
           grp[CurrentGroupId(grp)].group_name)

\* a failed message.answer() raises: the handler ends there, nothing answered
Delivered(outcome, delivered) ==
    IF delivered THEN outcome ELSE [outcome EXCEPT !.reply = NoReply]

\* the outcomes of one run of the handler on the given tables;
\* delivered: whether message.answer() succeeded
ClaimOutcomes(pay, usr, grp, sender, text, delivered) ==
    LET payment == ClaimLookup(pay, text)
        insert == UsersByTelegram(usr, Str(sender)) = {}
    IN  IF payment = NoPayment
        THEN {Delivered(ClaimRefused(pay, usr, sender,
                  IF UsedLookup(pay, text) # NoPayment THEN "already_used" ELSE "not_found"),
                  delivered)}
        ELSE {IF OwnedByOther(existing_user, sender)
              THEN Delivered(ClaimRefused(pay, usr, sender, "other_account"), delivered)
              ELSE IF CurrentGroupId(grp) = 0
              THEN \* the notice is awaited before db.commit()
                   IF delivered
                   THEN CommitClaim(pay, usr, Str(sender), payment, insert,
                                    Reply("not_configured"))
                   ELSE Outcome(pay, usr, NoReply)
              ELSE Delivered(CommitClaim(pay, usr, Str(sender), payment, insert,
                                         InviteAnswer(grp)), delivered)
              : existing_user \in First(UsersByPayment(usr, payment))}

handle_email_or_order(sender, text, delivered) ==
    /\ fsm[sender] = "none"
    /\ sessions[sender] = NoSession
    /\ call' = NoCall
    /\ UNCHANGED <<groups, logs, sessions, fsm, data, config>>
    /\ \E outcome \in ClaimOutcomes(payments, users, groups, sender, text, delivered) :
          /\ payments' = outcome.payments
          /\ users' = outcome.users
          /\ reply' = outcome.reply

\* the same handler up to its suspension at the await of the "not configured"
\* notice: the session holds the unflushed writes
claim_suspend(sender, text) ==
    LET payment == ClaimLookup(payments, text)
    IN  /\ fsm[sender] = "none"
        /\ sessions[sender] = NoSession
        /\ payment # NoPayment
        /\ CurrentGroupId(groups) = 0
        /\ \E existing_user \in First(UsersByPayment(users, payment)) :
               ~OwnedByOther(existing_user, sender)
        /\ sessions' = [sessions EXCEPT ![sender] =
              [pc |-> "notice", payment |-> payment,
               insert |-> UsersByTelegram(users, Str(sender)) = {}]]
        /\ reply' = NoReply
        /\ call' = NoCall
        /\ UNCHANGED <<db, fsm, data, config>>

\* the suspended handler resumes: db.commit() when the notice was delivered
claim_resume(sender, delivered) ==
    LET outcome ==
          IF delivered
          THEN CommitClaim(payments, users, Str(sender), sessions[sender].payment,
                           sessions[sender].insert, Reply("not_configured"))
          ELSE Outcome(payments, users, NoReply)
    IN  /\ sessions[sender].pc = "notice"
        /\ sessions' = [sessions EXCEPT ![sender] = NoSession]
        /\ call' = NoCall
        /\ UNCHANGED <<groups, logs, fsm, data, config>>
        /\ payments' = outcome.payments
        /\ users' = outcome.users
        /\ reply' = outcome.reply

----------------------------------------------------------------------------
(* Administrative rebind: rebind_payment, rebind_payment_to_user *)

\* a rebind that leaves the previous owner's binding in place
ReboundKeepsOwner(usr, telegram_id, payment, old_user) ==
    {IF u.telegram_id = telegram_id THEN User(telegram_id, payment) ELSE u
     : u \in usr \cup {User(telegram_id, NoPayment)}}

\* a rebind that deletes the previous owner's row instead of clearing it
ReboundDropsOwner(usr, telegram_id, payment, old_user) ==
    {IF u.telegram_id = telegram_id THEN User(telegram_id, payment) ELSE u
     : u \in (usr \cup {User(telegram_id, NoPayment)})
              \ {v \in usr : v.telegram_id # telegram_id /\ v = old_user}}

\* the users table after the rebind: the row of the target identity exists and
\* holds the payment, the previous owner found by the query is cleared
Rebound(usr, telegram_id, payment, old_user) ==
    {IF u.telegram_id = telegram_id THEN User(telegram_id, payment)
     ELSE IF old_user # NoRow /\ u.telegram_id = old_user.telegram_id
     THEN User(u.telegram_id, NoPayment)
     ELSE u : u \in usr \cup {User(telegram_id, NoPayment)}}

rebind_payment_to_user(payment_key, telegram_id) ==
    LET payment == AdminLookup(payments, payment_key)
    IN  /\ call' = NoCall
        /\ UNCHANGED <<groups, logs>>
        /\ IF payment = NoPayment
           THEN /\ reply' = Reply("payment_not_found")
                /\ UNCHANGED <<payments, users>>
           ELSE \E old_user \in First(UsersByPayment(users, payment)) :
                /\ users' = Rebound(users, telegram_id, payment, old_user)
                /\ payments' = Consumed(payments, payment)
                /\ reply' = Reply("rebound")

\* /rebind_payment <email|phone|order_id> <telegram_id>
rebind_payment(sender, payment_key, telegram_id) ==
    /\ Unrouted(sender, AdminStates)
    /\ IF ~is_admin(sender)
       THEN Ignored
       ELSE IF payment_key = NULL \/ ~isdigit(telegram_id)
       THEN Refused("rebind_format")
       ELSE /\ rebind_payment_to_user(payment_key, telegram_id)
            /\ UNCHANGED <<sessions, fsm, data, config>>

----------------------------------------------------------------------------
(* Join-request confirmation: approve_join_request *)

\* the current group learns its chat id from the first confirmed event
Adopted(chat_id) ==
    IF CurrentGroupId(groups) # 0 /\ groups[CurrentGroupId(groups)].chat_id = NULL
    THEN [groups EXCEPT ![CurrentGroupId(groups)].chat_id = chat_id]
    ELSE groups

\* no event is taken for one of another chat
WrongGroupNever(chat_id) == FALSE

\* the event is for another chat than the one the current group has learnt
WrongGroup(chat_id) ==
    /\ CurrentGroupId(groups) # 0
    /\ groups[CurrentGroupId(groups)].chat_id # NULL
    /\ groups[CurrentGroupId(groups)].chat_id # chat_id

GrantedLog(telegram_id, payment, chat, now) ==
    AccessLog(telegram_id, payments[payment].email, payments[payment].order_id,
              ChatTitle(chat), Str(chat), "granted", now, "Auto-approved join request")

\* the audit entry written only for a payment not yet used
JoinCommitOnce(telegram_id, payment, chat, now) ==
    /\ groups' = Adopted(Str(chat))
    /\ logs' = IF payments[payment].used
               THEN logs
               ELSE Append(logs, GrantedLog(telegram_id, payment, chat, now))
    /\ payments' = Consumed(payments, payment)

\* one audit entry kept per identity: the new entry replaces the earlier ones
JoinCommitReplaces(telegram_id, payment, chat, now) ==
    /\ groups' = Adopted(Str(chat))
    /\ logs' = Append(SelectSeq(logs, LAMBDA entry : entry.telegram_id # telegram_id),
                      GrantedLog(telegram_id, payment, chat, now))
    /\ payments' = Consumed(payments, payment)

\* the writes committed before event.approve() is awaited
JoinCommit(telegram_id, payment, chat, now) ==
    /\ groups' = Adopted(Str(chat))
    /\ logs' = Append(logs, GrantedLog(telegram_id, payment, chat, now))
    /\ payments' = Consumed(payments, payment)

\* the audit log's last word on this identity is `revoked`: a revoke of the
\* identity has succeeded and no restore of the same order has since
RevokedNow(telegram_id) ==
    \E i \in DOMAIN logs :
        /\ logs[i].action = "revoked"
        /\ logs[i].telegram_id = telegram_id
        /\ \A j \in DOMAIN logs :
              j > i => ~(logs[j].action = "unbanned" /\ logs[j].order_id = logs[i].order_id)

\* a handler that keeps track of revoked identities and ignores their requests
approve_join_request_unless_revoked(sender, chat, approved, now) ==
    /\ reply' = NoReply
    /\ UNCHANGED <<users, sessions, fsm, data, config>>
    /\ \E user \in First(UsersByTelegram(users, Str(sender))) :
          IF user = NoRow \/ user.payment_id = NoPayment
          THEN call' = NoCall /\ UNCHANGED <<payments, groups, logs>>
          ELSE IF payments[user.payment_id].status # PAID
          THEN call' = NoCall /\ UNCHANGED <<payments, groups, logs>>
          ELSE IF WrongGroup(Str(chat)) \/ RevokedNow(user.telegram_id)
          THEN call' = NoCall /\ UNCHANGED <<payments, groups, logs>>
          ELSE /\ JoinCommit(user.telegram_id, user.payment_id, chat, now)
               /\ call' = Call("approve", chat, sender, approved)

\* the handler without its test of the payment's status
approve_join_request_any_status(sender, chat, approved, now) ==
    /\ reply' = NoReply
    /\ UNCHANGED <<users, sessions, fsm, data, config>>
    /\ \E user \in First(UsersByTelegram(users, Str(sender))) :
          IF user = NoRow \/ user.payment_id = NoPayment
          THEN call' = NoCall /\ UNCHANGED <<payments, groups, logs>>
          ELSE IF WrongGroup(Str(chat))
          THEN call' = NoCall /\ UNCHANGED <<payments, groups, logs>>
          ELSE /\ JoinCommit(user.telegram_id, user.payment_id, chat, now)
               /\ call' = Call("approve", chat, sender, approved)

\* approved: whether event.approve() succeeded
approve_join_request(sender, chat, approved, now) ==
    /\ reply' = NoReply
    /\ UNCHANGED <<users, sessions, fsm, data, config>>
    /\ \E user \in First(UsersByTelegram(users, Str(sender))) :
          IF user = NoRow \/ user.payment_id = NoPayment
          THEN call' = NoCall /\ UNCHANGED <<payments, groups, logs>>
          ELSE IF payments[user.payment_id].status # PAID
          THEN call' = NoCall /\ UNCHANGED <<payments, groups, logs>>
          ELSE IF WrongGroup(Str(chat))
          THEN call' = NoCall /\ UNCHANGED <<payments, groups, logs>>
          ELSE /\ JoinCommit(user.telegram_id, user.payment_id, chat, now)
               /\ call' = Call("approve", chat, sender, approved)

----------------------------------------------------------------------------
(* Revoke and restore: admin_remove_user, admin_unban_user *)

AdminLog(user, payment, action, now, comment) ==
    AccessLog(user.telegram_id,
              IF payments[payment].email # NULL THEN payments[payment].email ELSE UNKNOWN,
              IF payments[payment].order_id # NULL THEN payments[payment].order_id ELSE UNKNOWN,
              groups[CurrentGroupId(groups)].group_name,
              groups[CurrentGroupId(groups)].chat_id,
              action, now, comment)

\* no test of the identity the payment is bound to
NotBoundNever(user) == FALSE

\* payment.user is missing or its telegram_id cannot be passed to the transport
NotBound(user) == user = NoRow \/ user.telegram_id = NULL \/ ~isdigit(user.telegram_id)

\* any group row with a chat id will do, not only the most recent row
ChatUnknownInEveryGroup ==
    \A i \in 1..Len(groups) : groups[i].chat_id = NULL

\* no current group, or its chat id has not been learnt yet
ChatUnknown ==
    CurrentGroupId(groups) = 0 \/ groups[CurrentGroupId(groups)].chat_id = NULL

\* the audit entry written whether or not the transport call succeeded
AuditedAlways(ok, user, payment, action, now, comment, done, failed) ==
    /\ logs' = Append(logs, AdminLog(user, payment, action, now, comment))
    /\ reply' = Reply(IF ok THEN done ELSE failed)
    /\ UNCHANGED <<payments, users, groups>>

\* a successful transport call that also clears the binding of the identity
AuditedUnbinds(ok, user, payment, action, now, comment, done, failed) ==
    IF ok
    THEN /\ logs' = Append(logs, AdminLog(user, payment, action, now, comment))
         /\ reply' = Reply(done)
         /\ users' = BoundUsers(users, user.telegram_id, NoPayment, FALSE)
         /\ UNCHANGED <<payments, groups>>
    ELSE /\ reply' = Reply(failed)
         /\ UNCHANGED <<payments, users, groups, logs>>

\* after the transport call: the audit entry when it succeeded, the failure
\* answer and nothing written when it raised
Audited(ok, user, payment, action, now, comment, done, failed) ==
    IF ok
    THEN /\ logs' = Append(logs, AdminLog(user, payment, action, now, comment))
         /\ reply' = Reply(done)
         /\ UNCHANGED <<payments, users, groups>>
    ELSE /\ reply' = Reply(failed)
         /\ UNCHANGED <<payments, users, groups, logs>>

\* the handler answers and returns before the transport is called
Rejected(kind) ==
    /\ reply' = Reply(kind)
    /\ call' = NoCall
    /\ UNCHANGED <<payments, users, groups, logs>>

admin_remove_user_start(sender) ==
    /\ Unrouted(sender, SetGroupStates \cup ExportStates \cup FindStates)
    /\ IF ~is_admin(sender)
       THEN Ignored
       ELSE /\ fsm' = [fsm EXCEPT ![sender] = "remove_user"]
            /\ UNCHANGED data
            /\ reply' = Reply("ask_remove_key")
            /\ call' = NoCall
            /\ UNCHANGED <<db, sessions, config>>

\* banned: whether bot.ban_chat_member() succeeded
admin_remove_user(sender, text, banned, now) ==
    /\ fsm[sender] = "remove_user"
    /\ IF ~is_admin(sender)
       THEN Ignored
       ELSE /\ fsm' = [fsm EXCEPT ![sender] = "none"]
            /\ data' = [data EXCEPT ![sender] = NoData]
            /\ UNCHANGED <<sessions, config>>
            /\ LET payment == AdminLookup(payments, text)
               IN  IF payment = NoPayment
                   THEN Rejected("payment_not_found")
                   ELSE \E user \in First(UsersByPayment(users, payment)) :
                        IF NotBound(user)
                        THEN Rejected("not_bound")
                        ELSE IF Str(sender) = user.telegram_id
                        THEN Rejected("remove_self")
                        ELSE IF ChatUnknown
                        THEN Rejected("chat_unknown")
                        ELSE /\ call' = Call("ban", ToInt(groups[CurrentGroupId(groups)].chat_id),
                                             ToInt(user.telegram_id), banned)
                             /\ Audited(banned, user, payment, "revoked", now,
                                        "Removed by admin", "removed", "remove_failed")

admin_unban_user_start(sender) ==
    /\ Unrouted(sender, AdminStates \ {"unban_user"})
    /\ IF ~is_admin(sender)
       THEN Ignored
       ELSE /\ fsm' = [fsm EXCEPT ![sender] = "unban_user"]
            /\ UNCHANGED data
            /\ reply' = Reply("ask_unban_key")
            /\ call' = NoCall
            /\ UNCHANGED <<db, sessions, config>>

\* unbanned: whether bot.unban_chat_member() succeeded
admin_unban_user(sender, text, unbanned, now) ==
    /\ fsm[sender] = "unban_user"
    /\ IF ~is_admin(sender)
       THEN Ignored
       ELSE /\ fsm' = [fsm EXCEPT ![sender] = "none"]
            /\ data' = [data EXCEPT ![sender] = NoData]
            /\ UNCHANGED <<sessions, config>>
            /\ LET payment == AdminLookup(payments, text)
               IN  IF payment = NoPayment
                   THEN Rejected("payment_not_found")
                   ELSE \E user \in First(UsersByPayment(users, payment)) :
                        IF NotBound(user)
                        THEN Rejected("not_bound")
                        ELSE IF ChatUnknown
                        THEN Rejected("chat_unknown")
                        ELSE /\ call' = Call("unban", ToInt(groups[CurrentGroupId(groups)].chat_id),
                                             ToInt(user.telegram_id), unbanned)
                             /\ Audited(unbanned, user, payment, "unbanned", now,
                                        "Unbanned by admin", "unbanned", "unban_failed")

\* /cancel or the Cancel button
admin_cancel(sender) ==
    IF ~is_admin(sender)
    THEN Ignored
    ELSE /\ fsm' = [fsm EXCEPT ![sender] = "none"]
         /\ data' = [data EXCEPT ![sender] = NoData]
         /\ reply' = Reply("admin_menu")
         /\ call' = NoCall
         /\ UNCHANGED <<db, sessions, config>>

----------------------------------------------------------------------------
(* Audit export: export_logs, export_logs_report *)

\* datetime.strptime(text, "%Y-%m-%d"): the fields between the two "-"
Dashes(text) == {i \in DOMAIN text : text[i] = "-"}

\* %Y is \d\d\d\d; year 0 is out of range
Year(text) == IF Len(text) = 4 /\ isdigit(text) THEN ToInt(text) ELSE 0

\* %m is 1[0-2]|0[1-9]|[1-9]
Month(text) ==
    IF Len(text) \in {1, 2} /\ isdigit(text) /\ ToInt(text) \in 1..12 THEN ToInt(text) ELSE 0

\* %d is 3[01]|[12]\d|0[1-9]|[1-9]| [1-9]
Day(text) ==
    IF Len(text) \in {1, 2} /\ isdigit(text) /\ ToInt(text) \in 1..31
    THEN ToInt(text)
    ELSE IF Len(text) = 2 /\ text[1] = " " /\ IsDigit(text[2]) /\ text[2] # "0"
    THEN DigitValue(text[2])
    ELSE 0

is_leap(year) == year % 4 = 0 /\ (year % 100 # 0 \/ year % 400 = 0)

days_in_month(year, month) ==
    CASE month = 2 -> IF is_leap(year) THEN 29 ELSE 28
      [] month \in {4, 6, 9, 11} -> 30
      [] OTHER -> 31

RECURSIVE days_before_month(_, _)
days_before_month(year, month) ==
    IF month = 1 THEN 0
    ELSE days_before_month(year, month - 1) + days_in_month(year, month - 1)

\* date.toordinal(): days since 0001-01-01, that day being 1
ordinal(year, month, day) ==
    LET y == year - 1
    IN  y * 365 + y \div 4 - y \div 100 + y \div 400 + days_before_month(year, month) + day

\* the day a date text names, 0 when strptime raises ValueError
strptime(text) ==
    IF Cardinality(Dashes(text)) # 2 THEN 0
    ELSE LET p1 == CHOOSE i \in Dashes(text) : \A j \in Dashes(text) : i <= j
             p2 == CHOOSE i \in Dashes(text) : \A j \in Dashes(text) : j <= i
             year == Year(SubSeq(text, 1, p1 - 1))
             month == Month(SubSeq(text, p1 + 1, p2 - 1))
             day == Day(SubSeq(text, p2 + 1, Len(text)))
         IN  IF year = 0 \/ month = 0 \/ day = 0 THEN 0
             ELSE IF day > days_in_month(year, month) THEN 0
             ELSE ordinal(year, month, day)

\* a datetime is counted in half days: 00:00 and 12:00 of a day
midnight(date) == 2 * date

noon(date) == 2 * date + 1

\* dt + timedelta(days=1)
next_day(dt) == dt + 2

DASH == <<"-">>
ALL == <<"a", "l", "l">>

\* the group filter of the export: none for no text and for the markers
group_filter(raw_group) ==
    IF raw_group = NULL \/ lower(raw_group) \in {DASH, ALL} THEN NULL ELSE raw_group

\* a row of the CSV file
Row(lg, i) ==
    [id |-> i, telegram_id |-> lg[i].telegram_id, email |-> lg[i].email,
     order_id |-> lg[i].order_id, group_name |-> lg[i].group_name,
     group_id |-> lg[i].group_id, action |-> lg[i].action,
     timestamp |-> lg[i].timestamp, comment |-> lg[i].comment]

\* ORDER BY timestamp ASC: every arrangement of the rows in which the
\* timestamps never decrease
Ascending(lg, ids) ==
    {order \in [1..Cardinality(ids) -> ids] :
        /\ \A k \in DOMAIN order, l \in DOMAIN order : order[k] = order[l] => k = l
        /\ \A k \in DOMAIN order, l \in DOMAIN order :
              k < l => lg[order[k]].timestamp <= lg[order[l]].timestamp}

\* message.answer_document() of the CSV file
Document(lg, order) ==
    [kind |-> "document", invite_link |-> NULL, group_name |-> NULL,
     rows |-> [k \in DOMAIN order |-> Row(lg, order[k])]]

\* a window that takes the entry stamped end_dt itself
export_logs_report_inclusive(lg, start_dt, end_dt, group_name) ==
    LET ids == {i \in DOMAIN lg :
                  /\ lg[i].timestamp >= start_dt
                  /\ lg[i].timestamp <= end_dt
                  /\ group_name # NULL => lg[i].group_name = group_name}
    IN  IF ids = {} THEN {Reply("no_records")}
        ELSE {Document(lg, order) : order \in Ascending(lg, ids)}

\* the answers the report can give on the given log
export_logs_report(lg, start_dt, end_dt, group_name) ==
    LET ids == {i \in DOMAIN lg :
                  /\ lg[i].timestamp >= start_dt
                  /\ lg[i].timestamp < end_dt
                  /\ group_name # NULL => lg[i].group_name = group_name}
    IN  IF ids = {} THEN {Reply("no_records")}
        ELSE {Document(lg, order) : order \in Ascending(lg, ids)}

\* what /export_logs answers an administrator on the given log
ExportOutcomes(lg, start_raw, end_raw, raw_group) ==
    IF strptime(start_raw) = 0 \/ strptime(end_raw) = 0
    THEN {Reply("bad_date")}
    ELSE export_logs_report(lg, midnight(strptime(start_raw)),
                            next_day(midnight(strptime(end_raw))), group_filter(raw_group))

\* /export_logs <YYYY-MM-DD> <YYYY-MM-DD> [group name]
export_logs(sender, start_raw, end_raw, raw_group) ==
    /\ Unrouted(sender, AdminStates)
    /\ IF ~is_admin(sender)
       THEN Ignored
       ELSE /\ reply' \in ExportOutcomes(logs, start_raw, end_raw, raw_group)
            /\ call' = NoCall
            /\ UNCHANGED <<db, sessions, fsm, data, config>>

----------------------------------------------------------------------------
(* The step-by-step flows of the admin menu, and /find_payment *)

\* state.set_state(state)
SetState(sender, state) == fsm' = [fsm EXCEPT ![sender] = state]

\* state.clear()
Clear(sender) ==
    /\ fsm' = [fsm EXCEPT ![sender] = "none"]
    /\ data' = [data EXCEPT ![sender] = NoData]

\* a menu button of an administrator: the flow starts and asks for its input
Started(sender, state, kind) ==
    IF ~is_admin(sender)
    THEN Ignored
    ELSE /\ SetState(sender, state)
         /\ reply' = Reply(kind)
         /\ call' = NoCall
         /\ UNCHANGED <<db, sessions, data, config>>

\* a step that keeps a text and asks for the next one
Kept(sender, next_data, state, kind) ==
    /\ data' = [data EXCEPT ![sender] = next_data]
    /\ SetState(sender, state)
    /\ reply' = Reply(kind)
    /\ call' = NoCall
    /\ UNCHANGED <<db, sessions, config>>

\* a step that answers and leaves the conversation where it is
Asked(kind) == Refused(kind)

\* what follows the await of the last answer: state.clear(), which is not
\* reached when sending the answer raised (delivered = FALSE); reply is the
\* answer the handler sends
Then(sender, delivered) ==
    IF delivered THEN Clear(sender) ELSE UNCHANGED <<fsm, data>>

\* a last step that answers and ends the flow with nothing written
Ended(sender, kind, delivered) ==
    /\ Then(sender, delivered)
    /\ reply' = Reply(kind)
    /\ call' = NoCall
    /\ UNCHANGED <<db, sessions, config>>

admin_set_group_start(sender) == Started(sender, "set_group_invite", "ask_invite_link")

admin_set_group_invite(sender, text) ==
    /\ fsm[sender] = "set_group_invite"
    /\ IF ~is_admin(sender)
       THEN Ignored
       ELSE Kept(sender, [data[sender] EXCEPT !.invite_link = text],
                 "set_group_name", "ask_group_name")

\* create_current_group() and state.clear()
admin_set_group_name(sender, group_name, delivered) ==
    /\ fsm[sender] = "set_group_name"
    /\ IF ~is_admin(sender)
       THEN Ignored
       ELSE IF data[sender].invite_link = NULL
       THEN Ended(sender, "no_invite_link", delivered)
       ELSE /\ groups' = Append(groups,
                                CurrentGroup(NULL, group_name, data[sender].invite_link))
            /\ reply' = Answer("group_set", data[sender].invite_link, group_name)
            /\ call' = NoCall
            /\ Then(sender, delivered)
            /\ UNCHANGED <<payments, users, logs, sessions, config>>

admin_export_start(sender) ==
    /\ Unrouted(sender, SetGroupStates)
    /\ Started(sender, "export_start", "ask_start_date")

admin_export_start_date(sender, text) ==
    /\ fsm[sender] = "export_start"
    /\ IF ~is_admin(sender)
       THEN Ignored
       ELSE IF strptime(text) = 0
       THEN Asked("bad_date")
       ELSE Kept(sender, [data[sender] EXCEPT !.export_start = text],
                 "export_end", "ask_end_date")

admin_export_end_date(sender, text) ==
    /\ fsm[sender] = "export_end"
    /\ IF ~is_admin(sender)
       THEN Ignored
       ELSE IF strptime(text) = 0
       THEN Asked("bad_date")
       ELSE Kept(sender, [data[sender] EXCEPT !.export_end = text],
                 "export_group", "ask_export_group")

admin_export_group_name(sender, text, delivered) ==
    /\ fsm[sender] = "export_group"
    /\ IF ~is_admin(sender)
       THEN Ignored
       ELSE IF data[sender].export_start = NULL \/ data[sender].export_end = NULL
       THEN Ended(sender, "no_dates", delivered)
       ELSE /\ reply' \in export_logs_report(logs,
                             midnight(strptime(data[sender].export_start)),
                             next_day(midnight(strptime(data[sender].export_end))),
                             group_filter(text))
            /\ call' = NoCall
            /\ Then(sender, delivered)
            /\ UNCHANGED <<db, sessions, config>>

\* the answer with the payment, its user and its last entries, or "not found"
send_payment_info(query) ==
    /\ reply' = Reply(IF AdminLookup(payments, query) = NoPayment
                      THEN "payment_not_found" ELSE "payment_info")
    /\ call' = NoCall
    /\ UNCHANGED db

admin_find_payment_start(sender) ==
    /\ Unrouted(sender, SetGroupStates \cup ExportStates)
    /\ Started(sender, "find_payment", "ask_find_key")

admin_find_payment_query(sender, text, delivered) ==
    /\ fsm[sender] = "find_payment"
    /\ IF ~is_admin(sender)
       THEN Ignored
       ELSE /\ send_payment_info(text)
            /\ Then(sender, delivered)
            /\ UNCHANGED <<sessions, config>>

\* /find_payment <email, phone or order_id>
find_payment(sender, query) ==
    /\ Unrouted(sender, AdminStates)
    /\ IF ~is_admin(sender)
       THEN Ignored
       ELSE IF query = NULL
       THEN Refused("find_format")
       ELSE /\ send_payment_info(query)
            /\ UNCHANGED <<sessions, fsm, data, config>>

admin_rebind_start(sender) ==
    /\ Unrouted(sender, SetGroupStates \cup ExportStates \cup FindStates)
    /\ Started(sender, "rebind_key", "ask_rebind_key")

admin_rebind_key(sender, text) ==
    /\ fsm[sender] = "rebind_key"
    /\ IF ~is_admin(sender)
       THEN Ignored
       ELSE Kept(sender, [data[sender] EXCEPT !.rebind_key = text],
                 "rebind_telegram", "ask_telegram_id")

admin_rebind_telegram(sender, telegram_id, delivered) ==
    /\ fsm[sender] = "rebind_telegram"
    /\ IF ~is_admin(sender)
       THEN Ignored
       ELSE IF ~isdigit(telegram_id)
       THEN Asked("telegram_id_number")
       ELSE IF data[sender].rebind_key = NULL
       THEN Ended(sender, "no_payment_key", delivered)
       ELSE /\ rebind_payment_to_user(data[sender].rebind_key, telegram_id)
            /\ Then(sender, delivered)
            /\ UNCHANGED <<sessions, config>>

----------------------------------------------------------------------------
(* Specifications *)

\* app/config.py with ADMIN_IDS=1 and no WEBHOOK_TOKEN; init_db() on an empty file
Init ==
    /\ payments = <<>>
    /\ users = {}
    /\ groups = <<>>
    /\ logs = <<>>
    /\ sessions = [s \in Senders |-> NoSession]
    /\ fsm = [s \in Senders |-> "none"]
    /\ data = [s \in Senders |-> NoData]
    /\ reply = NoReply
    /\ call = NoCall
    /\ config = Config(NULL, {1})

\* a webhook request for an order with the buyer's email
OrderRequest(order_id, status) ==
    Request(NULL, NULL, NULL, NULL, order_id, EMAIL1, NULL, status, NULL, 0)

\* each order with no status field or reported failed
Requests == {OrderRequest(order_id, status) : order_id \in OrderIds, status \in {NULL, FAILED}}

\* the same, the second order never reported failed
CoreRequests == Requests \ {OrderRequest(ORDER2, FAILED)}

Ingest(requests) ==
    \/ \E req \in requests, now \in Times : handle_prodamus(req, now)
    \/ \E sender \in Senders, order_id \in OrderIds, now \in Times :
          add_test_payment(sender, order_id, EMAIL1, NULL, now)

Claim ==
    \E sender \in Senders, text \in Identifiers, delivered \in BOOLEAN :
        handle_email_or_order(sender, text, delivered)

Rebind ==
    \E sender \in Senders, key \in Identifiers, target \in Senders :
        rebind_payment(sender, key, Str(target))

SetGroup(inputs, max) ==
    /\ Len(groups) < max
    /\ \E sender \in Senders, g \in inputs : set_group(sender, g[1], g[2])

Join(senders, chats) ==
    /\ Len(logs) < MaxLogs
    /\ \E sender \in senders, chat \in chats, approved \in BOOLEAN, now \in Times :
          approve_join_request(sender, chat, approved, now)

Revoke(texts) ==
    \/ \E sender \in Senders : admin_remove_user_start(sender)
    \/ /\ Len(logs) < MaxLogs
       /\ \E sender \in Senders, text \in texts, banned \in BOOLEAN,
             now \in Times :
             admin_remove_user(sender, text, banned, now)

Restore(texts) ==
    \/ \E sender \in Senders : admin_unban_user_start(sender)
    \/ /\ Len(logs) < MaxLogs
       /\ \E sender \in Senders, text \in texts, unbanned \in BOOLEAN,
             now \in Times :
             admin_unban_user(sender, text, unbanned, now)

Cancel == \E sender \in Senders : admin_cancel(sender)

Next ==
    \/ Ingest(CoreRequests)
    \/ Claim
    \/ Rebind
    \/ SetGroup({<<LINK1, NAME1>>}, MaxGroups)
    \/ Join({2}, {1})
    \/ Revoke({ORDER1})
    \/ Restore({ORDER1})

\* every handler runs to completion before the next event is taken
Spec == Init /\ [][Next]_vars

\* the ledger and the binding operations alone, with two groups to tell apart
NextBind ==
    \/ Ingest(Requests)
    \/ Claim
    \/ Rebind
    \/ SetGroup(GroupInputs, MaxBindGroups)

SpecBind == Init /\ [][NextBind]_vars

\* handlers interleave at their awaits: a claim may be suspended at the
\* "not configured" notice while other events are handled
Suspend == \E sender \in Senders, text \in Identifiers : claim_suspend(sender, text)

Resume == \E sender \in Senders, delivered \in BOOLEAN : claim_resume(sender, delivered)

NextConc ==
    \/ Ingest(Requests)
    \/ Claim
    \/ Rebind
    \/ SetGroup({<<LINK1, NAME1>>}, MaxGroups)
    \/ Suspend
    \/ Resume

SpecConc == Init /\ [][NextConc]_vars

\* join requests of both identities for both chats, with the claims and the
\* status changes that decide them
NextJoin ==
    \/ Ingest(CoreRequests)
    \/ Claim
    \/ SetGroup({<<LINK1, NAME1>>}, MaxGroups)
    \/ Join(Senders, Chats)

SpecJoin == Init /\ [][NextJoin]_vars

\* revoke and restore by any identifier, with the claims and the joins that
\* decide them
NextRevoke ==
    \/ Ingest(CoreRequests)
    \/ Claim
    \/ SetGroup({<<LINK1, NAME1>>}, MaxGroups)
    \/ Join({2}, {1})
    \/ Revoke(Identifiers)
    \/ Restore(Identifiers)

SpecRevoke == Init /\ [][NextRevoke]_vars

\* the creation times a payload can carry
Created == {1, 2}

\* a webhook request for an order with the buyer's email and a creation time
DatedRequests ==
    {Request(NULL, NULL, NULL, NULL, order_id, EMAIL1, NULL, NULL, NULL, created_at) :
        order_id \in OrderIds, created_at \in Created}

\* payments ingested and re-ingested with creation times in any order, resolved
\* by claims and by rebinds
NextResolve ==
    \/ Ingest(DatedRequests)
    \/ Claim
    \/ Rebind

SpecResolve == Init /\ [][NextResolve]_vars

\* a phone as a payload carries it, and what a buyer may type to find it: the
\* same number with another country prefix, its last seven digits, and a text
\* with "@" whose digits are the number's last ten
PHONE_RAW == <<"+", "7", " ", "9", "1", "6", " ", "1", "2", "3", "-", "4", "5", "-", "6", "7">>
PHONE8 == <<"8", "9", "1", "6", "1", "2", "3", "4", "5", "6", "7">>
PHONE_SHORT == <<"1", "2", "3", "4", "5", "6", "7">>
PHONE_AT == <<"9", "1", "6", "1", "2", "3", "4", "5", "6", "7", "@", "b">>

Queries == {PHONE8, PHONE_SHORT, PHONE_AT}

\* a webhook request for an order with the buyer's email, with or without phone
PhoneRequests ==
    {Request(NULL, NULL, NULL, NULL, order_id, EMAIL1, phone, NULL, NULL, 0) :
        order_id \in OrderIds, phone \in {NULL, PHONE_RAW}}

\* payments with phones, looked up by claims and by rebinds
NextMatch ==
    \/ \E req \in PhoneRequests, now \in Times : handle_prodamus(req, now)
    \/ \E sender \in Senders, text \in Queries, delivered \in BOOLEAN :
          handle_email_or_order(sender, text, delivered)
    \/ \E sender \in Senders, key \in Queries, target \in Senders :
          rebind_payment(sender, key, Str(target))

SpecMatch == Init /\ [][NextMatch]_vars

\* a phone field that holds no digit
PHONE_NONE == <<"-">>

\* webhook requests for one order with each field present or absent; those
\* with neither email nor phone are refused
UpsertRequests ==
    {Request(NULL, NULL, NULL, NULL, ORDER1, email, phone, status, product_name, created_at) :
        email \in {NULL, EMAIL1, EMAIL2}, phone \in {NULL, PHONE_RAW, PHONE_NONE},
        status \in {NULL, FAILED}, product_name \in {NULL, NAME1},
        created_at \in {0, 2}}

\* one order ingested again and again with other field values, and claimed
NextUpsert ==
    \/ \E req \in UpsertRequests, now \in Times : handle_prodamus(req, now)
    \/ Claim

SpecUpsert == Init /\ [][NextUpsert]_vars

\* the configured token, another one, the token as a body field with a blank
\* before it, and an order id of blanks
TOKEN == <<"T">>
WRONG == <<"W">>
TOKEN_PADDED == <<" ", "T">>
BLANK == <<" ">>

\* header, query parameter, body field and path segment of a request: no
\* token, the token in one of the four places, another token in all of them
Tokens ==
    {<<NULL, NULL, NULL, NULL>>, <<TOKEN, NULL, NULL, NULL>>, <<NULL, TOKEN, NULL, NULL>>,
     <<NULL, NULL, TOKEN_PADDED, NULL>>, <<NULL, NULL, NULL, TOKEN>>,
     <<WRONG, WRONG, WRONG, WRONG>>}

\* order id, email and phone of a request: complete, or lacking the order id
\* or both contacts
Fields ==
    {<<ORDER1, EMAIL1, NULL>>, <<ORDER2, NULL, PHONE_RAW>>, <<NULL, EMAIL1, PHONE_RAW>>,
     <<BLANK, EMAIL1, NULL>>, <<ORDER1, NULL, NULL>>, <<ORDER2, NULL, PHONE_NONE>>}

AuthRequests ==
    {Request(t[1], t[2], t[3], t[4], f[1], f[2], f[3], NULL, NULL, 0) :
        t \in Tokens, f \in Fields}

\* app/config.py with WEBHOOK_TOKEN unset or set
InitAuth ==
    /\ payments = <<>>
    /\ users = {}
    /\ groups = <<>>
    /\ logs = <<>>
    /\ sessions = [s \in Senders |-> NoSession]
    /\ fsm = [s \in Senders |-> "none"]
    /\ data = [s \in Senders |-> NoData]
    /\ reply = NoReply
    /\ call = NoCall
    /\ config \in {Config(NULL, {1}), Config(TOKEN, {1})}

\* requests with and without the token, and claims of what they brought
NextAuth ==
    \/ \E req \in AuthRequests, now \in Times : handle_prodamus(req, now)
    \/ Claim

SpecAuth == InitAuth /\ [][NextAuth]_vars

\* a status outside the vocabulary, as a provider may spell it
REFUND == <<"R", "E", "F", "U", "N", "D">>

StatusInputs ==
    {SUCCESS, SUCCEEDED, PAID, COMPLETED, CANCELLED, CANCELED, FAILED, PENDING, REFUND}

\* a webhook request for an order with the buyer's email and a status
StatusRequests ==
    {OrderRequest(order_id, status) : order_id \in OrderIds, status \in StatusInputs}

\* orders reported with every status, and claimed
NextStatus ==
    \/ \E req \in StatusRequests, now \in Times : handle_prodamus(req, now)
    \/ Claim

SpecStatus == Init /\ [][NextStatus]_vars

\* one paid order claimed by identity 2, groups set one after another, join
\* requests for either chat, and the administrator's revoke and restore
NextGroups ==
    \/ \E now \in Times : handle_prodamus(OrderRequest(ORDER1, NULL), now)
    \/ \E delivered \in BOOLEAN : handle_email_or_order(2, ORDER1, delivered)
    \/ SetGroup({<<LINK1, NAME1>>}, MaxBindGroups)
    \/ Join({2}, Chats)
    \/ Revoke({ORDER1})
    \/ Restore({ORDER1})

SpecGroups == Init /\ [][NextGroups]_vars

\* date texts an administrator may type: two dates, a date with one-digit
\* month and day, and a date in another notation
JAN01 == <<"2", "0", "2", "5", "-", "0", "1", "-", "0", "1">>
JAN15 == <<"2", "0", "2", "5", "-", "0", "1", "-", "1", "5">>
JAN_SHORT == <<"2", "0", "2", "5", "-", "1", "-", "5">>
JAN_DOTS == <<"1", "5", ".", "0", "1", ".", "2", "0", "2", "5">>

ExportDates == {JAN01, JAN15, JAN_SHORT, JAN_DOTS}

ExportGroups == {NULL, <<"A", "L", "L">>, NAME1}

\* the day of January 2025
Jan(day) == ordinal(2025, 1, day)

\* datetime.utcnow() when an audit entry is written; the clock may be set back
ExportTimes == {noon(Jan(10)), noon(Jan(15)), midnight(Jan(16))}

\* joins of identity 2 granted at several times for either chat, and exports
NextExport ==
    \/ \E now \in Times : handle_prodamus(OrderRequest(ORDER1, NULL), now)
    \/ \E delivered \in BOOLEAN : handle_email_or_order(2, ORDER1, delivered)
    \/ /\ Len(logs) < MaxLogs
       /\ \E chat \in Chats, approved \in BOOLEAN, now \in ExportTimes :
             approve_join_request(2, chat, approved, now)
    \/ \E sender \in Senders, start_raw \in ExportDates, end_raw \in ExportDates,
          raw_group \in ExportGroups :
          export_logs(sender, start_raw, end_raw, raw_group)

SpecExport == Init /\ [][NextExport]_vars

----------------------------------------------------------------------------
(* Webhooks without a status: the field missing, or blank *)

NoStatus == {NULL, BLANK}

DefaultRequests ==
    {OrderRequest(order_id, status) : order_id \in OrderIds, status \in NoStatus \cup {FAILED}}

NextDefault ==
    \/ \E req \in DefaultRequests, now \in Times : handle_prodamus(req, now)
    \/ Claim

SpecDefault == Init /\ [][NextDefault]_vars

----------------------------------------------------------------------------
(* Join requests after a revoke: room in the log for the entry of the first
   join, of the revoke, and of what follows *)

MaxRejoinLogs == 3

NextRejoin ==
    \/ \E now \in Times : handle_prodamus(OrderRequest(ORDER1, NULL), now)
    \/ \E delivered \in BOOLEAN : handle_email_or_order(2, ORDER1, delivered)
    \/ SetGroup({<<LINK1, NAME1>>}, MaxGroups)
    \/ /\ Len(logs) < MaxRejoinLogs
       /\ \E chat \in Chats, approved \in BOOLEAN, now \in Times :
             approve_join_request(2, chat, approved, now)
    \/ \E sender \in Senders : admin_remove_user_start(sender)
    \/ /\ Len(logs) < MaxRejoinLogs
       /\ \E sender \in Senders, banned \in BOOLEAN, now \in Times :
             admin_remove_user(sender, ORDER1, banned, now)
    \/ \E sender \in Senders : admin_unban_user_start(sender)
    \/ /\ Len(logs) < MaxRejoinLogs
       /\ \E sender \in Senders, unbanned \in BOOLEAN, now \in Times :
             admin_unban_user(sender, ORDER1, unbanned, now)

SpecRejoin == Init /\ [][NextRejoin]_vars

----------------------------------------------------------------------------
(* The administrative operations, as commands and as menu flows, sent by an
   administrator (1) and by somebody else (2) *)

NOT_A_NUMBER == <<"2", "x">>

TelegramIds == {Str(2), NOT_A_NUMBER}

FlowDates == {JAN01, JAN_SHORT, JAN_DOTS}

FlowGroups == {DASH, NAME1}

FindQueries == {NULL, ORDER1}

TestPayment == \E sender \in Senders, now \in Times : add_test_payment(sender, ORDER2, EMAIL1, NULL, now)

RebindCommand == \E sender \in Senders, telegram_id \in TelegramIds : rebind_payment(sender, ORDER1, telegram_id)

FindCommand == \E sender \in Senders, query \in FindQueries : find_payment(sender, query)

ExportCommand == \E sender \in Senders, start_raw \in FlowDates, raw_group \in {NULL, NAME1} : export_logs(sender, start_raw, JAN15, raw_group)

SetGroupFlow ==
    \/ \E sender \in Senders : admin_set_group_start(sender)
    \/ \E sender \in Senders : admin_set_group_invite(sender, LINK2)
    \/ /\ Len(groups) < MaxGroups
       /\ \E sender \in Senders, delivered \in BOOLEAN :
             admin_set_group_name(sender, NAME2, delivered)

ExportFlow ==
    \/ \E sender \in Senders : admin_export_start(sender)
    \/ \E sender \in Senders, text \in FlowDates : admin_export_start_date(sender, text)
    \/ \E sender \in Senders, text \in FlowDates : admin_export_end_date(sender, text)
    \/ \E sender \in Senders, text \in FlowGroups, delivered \in BOOLEAN :
          admin_export_group_name(sender, text, delivered)

FindFlow ==
    \/ \E sender \in Senders : admin_find_payment_start(sender)
    \/ \E sender \in Senders, delivered \in BOOLEAN :
          admin_find_payment_query(sender, ORDER1, delivered)

RebindFlow ==
    \/ \E sender \in Senders : admin_rebind_start(sender)
    \/ \E sender \in Senders : admin_rebind_key(sender, ORDER1)
    \/ \E sender \in Senders, telegram_id \in TelegramIds, delivered \in BOOLEAN :
          admin_rebind_telegram(sender, telegram_id, delivered)

\* the buttons of the admin menu that open a flow
Menu ==
    \/ \E sender \in Senders : admin_set_group_start(sender)
    \/ \E sender \in Senders : admin_export_start(sender)
    \/ \E sender \in Senders : admin_find_payment_start(sender)
    \/ \E sender \in Senders : admin_rebind_start(sender)

NextAdmin ==
    \/ \E now \in Times : handle_prodamus(OrderRequest(ORDER1, NULL), now)
    \/ \E delivered \in BOOLEAN : handle_email_or_order(2, ORDER1, delivered)
    \/ Join({2}, {1})
    \/ TestPayment
    \/ SetGroup({<<LINK1, NAME1>>}, MaxGroups)
    \/ RebindCommand
    \/ FindCommand
    \/ ExportCommand
    \/ Revoke({ORDER1})
    \/ Restore({ORDER1})
    \/ Menu
    \/ Cancel

SpecAdmin == Init /\ [][NextAdmin]_vars

NextFlows ==
    \/ \E now \in Times : handle_prodamus(OrderRequest(ORDER1, NULL), now)
    \/ \E delivered \in BOOLEAN : handle_email_or_order(2, ORDER1, delivered)
    \/ RebindCommand
    \/ ExportCommand
    \/ SetGroupFlow
    \/ ExportFlow
    \/ FindFlow
    \/ RebindFlow
    \/ Cancel

SpecFlows == Init /\ [][NextFlows]_vars

\* the six flows of the menu, with the claim and the join that let a revoke
\* and a restore succeed
NextIdle ==
    \/ \E now \in Times : handle_prodamus(OrderRequest(ORDER1, NULL), now)
    \/ \E delivered \in BOOLEAN : handle_email_or_order(2, ORDER1, delivered)
    \/ Join({2}, {1})
    \/ SetGroupFlow
    \/ ExportFlow
    \/ FindFlow
    \/ RebindFlow
    \/ Revoke({ORDER1})
    \/ Restore({ORDER1})
    \/ Cancel

SpecIdle == Init /\ [][NextIdle]_vars

----------------------------------------------------------------------------
(* Properties *)

\* C1: after any sequence of claim, rebind, join, revoke and restore steps run
\* one after another, no payment is the bound payment of two identities.
AtMostOneBinding ==
    \A payment \in PaymentIds(payments) : Cardinality(UsersByPayment(users, payment)) <= 1

\* two identities hold two different payments, one of them taken over by a
\* rebind from the other, and a join has been granted
AtMostOneBindingReached ==
    /\ reply.kind = "rebound"
    /\ \E a \in users, b \in users :
          /\ a.payment_id # NoPayment
          /\ b.payment_id # NoPayment
          /\ a.payment_id # b.payment_id
    /\ Len(logs) > 0

\* C2: when two identities claim the same payment and their handlers
\* interleave at the awaits, the notice of a missing group included, the two
\* never both end up bound to that payment.
NoDoubleBinding ==
    \A a \in users, b \in users :
        a.payment_id # NoPayment /\ a.payment_id = b.payment_id => a = b

\* C3: a "granted" entry is written only for a join request whose approve
\* call succeeded: a step that appends one is a step whose approve call went
\* through.
GrantedOnlyIfApproved ==
    [][(Len(logs') > Len(logs) /\ logs'[Len(logs')].action = "granted")
         => (call'.op = "approve" /\ call'.ok)]_vars

\* C4: a revoke or restore whose ban or unban call fails leaves the payments,
\* the users, the current group and the audit log as they were.
FailedTransportChangesNothing ==
    [][(call'.op \in {"ban", "unban"} /\ ~call'.ok)
         => UNCHANGED <<payments, users, groups, logs>>]_vars

\* a ban of a bound identity in a known chat has just failed
FailedTransportReached ==
    /\ call.op = "ban"
    /\ ~call.ok
    /\ reply.kind = "remove_failed"
    /\ \E user \in users : user.payment_id # NoPayment /\ ToInt(user.telegram_id) = call.user_id

\* the answers of a claim that went through
ClaimSucceeded(outcome) == outcome.reply.kind \in {"invite", "not_configured"}

\* C5: after identity A has claimed a payment with an identifier, a claim by a
\* different identity B with the same identifier, that payment being the only
\* one it matches, is answered "already used with a different account".
SecondIdentityGetsConflict ==
    \A a \in Senders, text \in Identifiers : \A b \in Senders \ {a} :
        \A first \in ClaimOutcomes(payments, users, groups, a, text, TRUE) :
            (/\ ClaimSucceeded(first)
             /\ Cardinality({i \in PaymentIds(payments) : ClaimFilter(payments[i], text)}) = 1)
            => \A second \in ClaimOutcomes(first.payments, first.users, groups, b, text, TRUE) :
                   second.reply.kind = "other_account"

\* C6: the claim run twice by the same identity with the same identifier on an
\* unused paid payment leaves, after the second run, the payments and the users
\* the first run left.
ClaimIdempotent ==
    \A a \in Senders, text \in Identifiers :
        \A first \in ClaimOutcomes(payments, users, groups, a, text, TRUE) :
            ClaimSucceeded(first)
            => \A second \in ClaimOutcomes(first.payments, first.users, groups, a, text, TRUE) :
                   /\ second.payments = first.payments
                   /\ second.users = first.users

\* C7: the identity that holds the binding and sends the same identifier again
\* is answered with the success answer again, not "already used" or "not found".
OwnerResubmissionSucceeds ==
    \A a \in Senders, text \in Identifiers :
        \A first \in ClaimOutcomes(payments, users, groups, a, text, TRUE) :
            ClaimSucceeded(first)
            => \A second \in ClaimOutcomes(first.payments, first.users, groups, a, text, TRUE) :
                   ClaimSucceeded(second)

\* C8: a rebind of a payment held by identity A to another identity B clears
\* A's binding, binds B to the payment and marks it used; A's row is still
\* there and B's row exists afterwards whether or not it did before.
RebindEvicts ==
    [][\A sender \in Senders, key \in Identifiers, target \in Senders :
         LET payment == AdminLookup(payments, key)
         IN  (/\ is_admin(sender)
              /\ payment # NoPayment
              /\ \E a \in UsersByPayment(users, payment) : a.telegram_id # Str(target)
              /\ rebind_payment(sender, key, Str(target)))
             => /\ \A a \in UsersByPayment(users, payment) :
                      a.telegram_id # Str(target) => User(a.telegram_id, NoPayment) \in users'
                /\ UsersByPayment(users', payment) = {User(Str(target), payment)}
                /\ UsersByTelegram(users', Str(target)) = {User(Str(target), payment)}
                /\ payments'[payment].used]_vars

\* a rebind has just moved a payment: the new owner holds it and the previous
\* owner's row is there, holding nothing
RebindEvictsReached ==
    /\ reply.kind = "rebound"
    /\ \E a \in users, b \in users :
          /\ a.payment_id = NoPayment
          /\ b.payment_id # NoPayment
          /\ payments[b.payment_id].used

FailedClaimChangesNothing ==
    [][\A sender \in Senders, text \in Identifiers, delivered \in BOOLEAN :
         LET payment == ClaimLookup(payments, text)
         IN  (/\ \/ payment = NoPayment
                 \/ \E u \in UsersByPayment(users, payment) : u.telegram_id # Str(sender)
              /\ handle_email_or_order(sender, text, delivered))
             => UNCHANGED <<payments, users, groups, logs>>]_vars

\* a claim has just been refused for a payment that is used and held
FailedClaimReached ==
    /\ reply.kind = "already_used"
    /\ \E u \in users : u.payment_id # NoPayment /\ payments[u.payment_id].used

\* C11: the claim writes used and the binding only after the invite has been
\* delivered: a claim whose answer could not be delivered leaves the payments
\* and the users as they were.
UndeliveredClaimChangesNothing ==
    [][\A sender \in Senders, text \in Identifiers :
         handle_email_or_order(sender, text, FALSE) => UNCHANGED <<payments, users>>]_vars

\* the identity has no row, holds no payment, or holds one that is not paid
Unentitled(sender) ==
    \A user \in UsersByTelegram(users, Str(sender)) :
        user.payment_id = NoPayment \/ payments[user.payment_id].status # PAID

\* C12: a join request of an identity with no row, no bound payment or a bound
\* payment that is not paid does nothing: no approval, no audit entry, no used
\* flag changed, no chat id adopted.
UnentitledJoinIsNoOp ==
    [][\A sender \in Senders, chat \in Chats, approved \in BOOLEAN, now \in Times :
         (Unentitled(sender) /\ approve_join_request(sender, chat, approved, now))
         => /\ call'.op # "approve"
            /\ UNCHANGED <<payments, users, groups, logs>>]_vars

\* the state a join request leaves when its sender holds a payment that is no
\* longer paid and the current group has no chat id yet: nothing answered,
\* nothing called, nothing written
UnentitledJoinReached ==
    /\ reply = NoReply
    /\ call = NoCall
    /\ logs = <<>>
    /\ CurrentGroupId(groups) # 0
    /\ groups[CurrentGroupId(groups)].chat_id = NULL
    /\ \E sender \in Senders : \E user \in UsersByTelegram(users, Str(sender)) :
          /\ user.payment_id # NoPayment
          /\ payments[user.payment_id].status = FAILED

\* C13: the chat id of the current group is first-write-wins: a join request
\* that passes the checks sets it when it is unset, no join request changes it
\* once set, and a join request of a bound paid identity for another chat is
\* ignored: no approval, no audit entry, no used flag changed.
ChatIdFirstWriteWins ==
    [][\A sender \in Senders, chat \in Chats, approved \in BOOLEAN, now \in Times :
         approve_join_request(sender, chat, approved, now)
         => LET g == CurrentGroupId(groups)
            IN  /\ Len(groups') = Len(groups)
                /\ \A i \in 1..Len(groups) : i # g => groups'[i] = groups[i]
                /\ (g # 0 /\ groups[g].chat_id # NULL) => groups' = groups
                /\ (g # 0 /\ groups[g].chat_id = NULL /\ ~Unentitled(sender))
                      => groups' = [groups EXCEPT ![g].chat_id = Str(chat)]
                /\ (g # 0 /\ groups[g].chat_id \notin {NULL, Str(chat)})
                      => /\ call'.op # "approve"
                         /\ UNCHANGED <<payments, users, groups, logs>>]_vars

\* the state a join request for chat 2 leaves after the current group has
\* learnt chat 1 from a granted join: its sender holds a paid payment, nothing
\* was called and the one audit entry is the earlier one
ChatIdFirstWriteWinsReached ==
    /\ call = NoCall
    /\ reply = NoReply
    /\ CurrentGroupId(groups) # 0
    /\ groups[CurrentGroupId(groups)].chat_id = Str(1)
    /\ Len(logs) = 1
    /\ logs[1].group_id = Str(1)
    /\ \E sender \in Senders : UsersByTelegram(users, Str(sender)) # {} /\ ~Unentitled(sender)

\* the current group, if any, has no chat id yet or has the event's
RightGroup(chat) ==
    \/ CurrentGroupId(groups) = 0
    \/ groups[CurrentGroupId(groups)].chat_id \in {NULL, Str(chat)}

\* C14: a join request of a bound paid identity for the right or a not yet
\* known chat marks the bound payment used, appends exactly one "granted"
\* entry and calls approve, also when the payment was used already: every
\* such event adds one entry.
PassingJoinGrants ==
    [][\A sender \in Senders, chat \in Chats, approved \in BOOLEAN, now \in Times :
         (/\ UsersByTelegram(users, Str(sender)) # {}
          /\ ~Unentitled(sender)
          /\ RightGroup(chat)
          /\ approve_join_request(sender, chat, approved, now))
         => \E user \in UsersByTelegram(users, Str(sender)) :
               /\ payments' = [payments EXCEPT ![user.payment_id].used = TRUE]
               /\ users' = users
               /\ Len(logs') = Len(logs) + 1
               /\ SubSeq(logs', 1, Len(logs)) = logs
               /\ logs'[Len(logs')].action = "granted"
               /\ logs'[Len(logs')].telegram_id = Str(sender)
               /\ logs'[Len(logs')].order_id = payments[user.payment_id].order_id
               /\ logs'[Len(logs')].group_id = Str(chat)
               /\ call' = Call("approve", chat, sender, approved)]_vars

\* two join requests of one identity have been granted, the second for a
\* payment already used, and the second approve call went through
PassingJoinGrantsReached ==
    /\ Len(logs) = 2
    /\ logs[1].action = "granted"
    /\ logs[2].action = "granted"
    /\ logs[1].telegram_id = logs[2].telegram_id
    /\ logs[1].order_id = logs[2].order_id
    /\ call.op = "approve"
    /\ call.ok

\* C15: a revoke whose ban call succeeds appends exactly one "revoked" entry
\* and a restore whose unban call succeeds exactly one "unbanned" entry, for
\* the identity the call was made for; no binding, used flag, status or group
\* row changes.
TransportDoneAppendsOne ==
    [][(call'.op \in {"ban", "unban"} /\ call'.ok)
         => /\ UNCHANGED <<payments, users, groups>>
            /\ Len(logs') = Len(logs) + 1
            /\ SubSeq(logs', 1, Len(logs)) = logs
            /\ logs'[Len(logs')].action = (IF call'.op = "ban" THEN "revoked" ELSE "unbanned")
            /\ ToInt(logs'[Len(logs')].telegram_id) = call'.user_id]_vars

\* a ban has just succeeded: the last entry is "revoked" and the identity it
\* names still holds its payment, still used
TransportDoneReached ==
    /\ call.op = "ban"
    /\ call.ok
    /\ reply.kind = "removed"
    /\ logs[Len(logs)].action = "revoked"
    /\ \E user \in UsersByTelegram(users, logs[Len(logs)].telegram_id) :
          /\ user.payment_id # NoPayment
          /\ payments[user.payment_id].order_id = logs[Len(logs)].order_id
          /\ payments[user.payment_id].used

\* the payment has no identity a ban or unban could be called for
NoTarget(payment) ==
    \/ UsersByPayment(users, payment) = {}
    \/ \E user \in UsersByPayment(users, payment) : ~isdigit(user.telegram_id)

\* the sender holds the payment
SelfTarget(sender, payment) ==
    \E user \in UsersByPayment(users, payment) : user.telegram_id = Str(sender)

\* there is no current group or it has not learnt its chat id
NoChatId ==
    \/ groups = <<>>
    \/ groups[Len(groups)].chat_id = NULL

\* C16: a revoke makes no transport call and writes nothing when the resolved
\* payment has no bound identity or one whose id is not numeric, when the
\* administrator is the bound identity, or when the current group's chat id is
\* unknown; a restore likewise for the missing identity and the unknown chat.
BlockedTransportChangesNothing ==
    [][\A sender \in {s \in Senders : fsm[s] # "none"} :
       \A text \in Identifiers, ok \in BOOLEAN, now \in Times :
         LET payment == AdminLookup(payments, text)
         IN  /\ (/\ is_admin(sender)
                 /\ admin_remove_user(sender, text, ok, now)
                 /\ payment # NoPayment
                 /\ NoTarget(payment) \/ SelfTarget(sender, payment) \/ NoChatId)
                => (call' = NoCall /\ UNCHANGED <<payments, users, groups, logs>>)
             /\ (/\ is_admin(sender)
                 /\ admin_unban_user(sender, text, ok, now)
                 /\ payment # NoPayment
                 /\ NoTarget(payment) \/ NoChatId)
                => (call' = NoCall /\ UNCHANGED <<payments, users, groups, logs>>)]_vars

\* the administrator has just been refused the removal of the identity that is
\* their own, the chat id of the current group being known
BlockedTransportReached ==
    /\ reply.kind = "remove_self"
    /\ call = NoCall
    /\ ~NoChatId
    /\ \E sender \in Senders :
          is_admin(sender) /\ SelfTarget(sender, AdminLookup(payments, ORDER1))

\* C17: a self-service claim binds an identity only to a payment that is paid
\* and unused when the claim is made: whatever claims came before, the row a
\* claim writes never points to a payment that was not paid or was used.
ClaimBindsPaidUnusedOnly ==
    [][\A user \in users' \ users :
         (\E sender \in Senders, text \in Identifiers, delivered \in BOOLEAN :
             handle_email_or_order(sender, text, delivered))
         => /\ user.payment_id # NoPayment
            /\ payments[user.payment_id].status = PAID
            /\ ~payments[user.payment_id].used]_vars

\* a claim has just bound its sender to a paid payment although a later
\* payment with the same email, not paid, was there to match
ClaimBindsPaidUnusedOnlyReached ==
    /\ reply.kind \in {"invite", "not_configured"}
    /\ \E user \in users : \E i \in PaymentIds(payments) :
          /\ user.payment_id # NoPayment
          /\ payments[user.payment_id].status = PAID
          /\ i > user.payment_id
          /\ payments[i].status = FAILED
          /\ ~payments[i].used
          /\ payments[i].email = payments[user.payment_id].email

\* C18: of two payments that match an identifier and differ in creation time,
\* the lookup never returns the one created earlier, in the administrative
\* lookup as in the self-service one, whatever the order of ingestion.
LaterCreatedWins ==
    \A text \in Identifiers : \A i \in PaymentIds(payments), j \in PaymentIds(payments) :
        payments[i].created_at < payments[j].created_at
        => /\ (AdminFilter(payments[i], text) /\ AdminFilter(payments[j], text))
                => AdminLookup(payments, text) # i
           /\ (/\ ClaimFilter(payments[i], text) /\ ClaimFilter(payments[j], text)
               /\ payments[i].status = PAID /\ payments[j].status = PAID
               /\ ~payments[i].used /\ ~payments[j].used)
                => ClaimLookup(payments, text) # i

\* C19: an identifier with "@" selects a payment by email equality only, in
\* the administrative lookup as in the self-service one, never through its
\* order id or the digits it holds; an identifier without "@" selects only by
\* order id, exact phone or the last-10-digits suffix.
AtMeansEmailOnly ==
    \A text \in Queries :
        \A i \in {AdminLookup(payments, text), ClaimLookup(payments, text),
                  UsedLookup(payments, text)} \ {NoPayment} :
            IF HasAt(text)
            THEN payments[i].email = text
            ELSE \/ payments[i].order_id = text
                 \/ payments[i].phone # NULL /\ payments[i].phone = normalize_phone(text)
                 \/ /\ Len(normalize_phone(text)) >= 10
                    /\ endswith(payments[i].phone,
                                SubSeq(normalize_phone(text), Len(normalize_phone(text)) - 9,
                                       Len(normalize_phone(text))))

\* the digits of a query and the last ten of them
QueryDigits(text) == SelectSeq(text, LAMBDA ch : ch \in Digits)

LastTen(digits) == SubSeq(digits, Len(digits) - 9, Len(digits))

\* C20: a query without "@" holding at least 10 digits matches every payment
\* whose stored phone ends with the query's last 10 digits; a query with fewer
\* digits matches a phone only when the digit strings are equal.
PhoneSuffixRule ==
    \A text \in {q \in Queries : ~HasAt(q)} : \A i \in PaymentIds(payments) :
        LET digits == QueryDigits(text)
            phone == payments[i].phone
        IN  IF Len(digits) >= 10
            THEN (phone # NULL /\ Len(phone) >= 10 /\ LastTen(phone) = LastTen(digits))
                 => (ClaimFilter(payments[i], text) /\ AdminFilter(payments[i], text))
            ELSE /\ (ClaimFilter(payments[i], text) /\ payments[i].order_id # text)
                      => phone = digits
                 /\ (/\ AdminFilter(payments[i], text)
                     /\ payments[i].order_id # text
                     /\ payments[i].email # text)
                      => phone = digits

\* a claim with one of the phone queries has just bound its sender to the
\* payment whose stored phone has another country prefix than the query
PhoneSuffixRuleReached ==
    /\ reply.kind \in {"invite", "not_configured"}
    /\ \E user \in users :
          /\ user.payment_id # NoPayment
          /\ payments[user.payment_id].phone = normalize_phone(PHONE_RAW)
          /\ payments[user.payment_id].phone # PHONE8
          /\ ClaimFilter(payments[user.payment_id], PHONE8)
          /\ ~ClaimFilter(payments[user.payment_id], PHONE_SHORT)

\* C21: order_id is unique over the payments in every state: a webhook for an
\* order already there updates its row in place, the number of rows does not
\* grow, and the test insertion never adds a second row with an order id that
\* is already there.
OrderIdUnique ==
    [][/\ \A i \in PaymentIds(payments'), j \in PaymentIds(payments') :
            payments'[i].order_id = payments'[j].order_id => i = j
       /\ \A req \in Requests, now \in Times :
            LET id == PaymentByOrder(payments, req.order_id)
            IN  (id # NoPayment /\ handle_prodamus(req, now))
                => /\ Len(payments') = Len(payments)
                   /\ payments'[id].order_id = req.order_id
                   /\ \A i \in PaymentIds(payments) \ {id} : payments'[i] = payments[i]
       /\ \A sender \in Senders, order_id \in OrderIds, now \in Times :
            (/\ PaymentByOrder(payments, order_id) # NoPayment
             /\ add_test_payment(sender, order_id, EMAIL1, NULL, now))
            => payments' = payments]_vars

\* a webhook has just been accepted, there are two payments, and one of them
\* was claimed while paid and has since been reported failed in place
OrderIdUniqueReached ==
    /\ reply.kind = "200"
    /\ Len(payments) = 2
    /\ \E i \in PaymentIds(payments) : payments[i].used /\ payments[i].status = FAILED

\* C22: an accepted webhook for an order already there always overwrites
\* status and created_at, overwrites email, phone and product_name exactly when
\* the incoming value is not empty, and leaves the used flag of the row and
\* the users as they were.
UpsertOverlays ==
    [][\A req \in UpsertRequests, now \in Times :
         LET id == PaymentByOrder(payments, req.order_id)
             digits == SelectSeq(req.phone, IsDigit)
         IN  (/\ id # NoPayment
              /\ req.email # NULL \/ digits # <<>>
              /\ handle_prodamus(req, now))
             => /\ payments'[id].status = (IF req.status = NULL THEN PAID ELSE req.status)
                /\ payments'[id].created_at = (IF req.created_at = 0 THEN now ELSE req.created_at)
                /\ payments'[id].email = (IF req.email # NULL THEN req.email ELSE payments[id].email)
                /\ payments'[id].phone = (IF digits # <<>> THEN digits ELSE payments[id].phone)
                /\ payments'[id].product_name =
                      (IF req.product_name # NULL THEN req.product_name
                       ELSE payments[id].product_name)
                /\ payments'[id].used = payments[id].used
                /\ payments'[id].order_id = payments[id].order_id
                /\ users' = users]_vars

\* a webhook has just been accepted for a payment that is used and held: the
\* row has the email, the status and the creation time of a later request and
\* a phone and a product name
UpsertOverlaysReached ==
    /\ reply.kind = "200"
    /\ \E user \in users :
          /\ user.payment_id # NoPayment
          /\ payments[user.payment_id].used
          /\ payments[user.payment_id].email = EMAIL2
          /\ payments[user.payment_id].status = FAILED
          /\ payments[user.payment_id].created_at = 2
          /\ payments[user.payment_id].phone = normalize_phone(PHONE_RAW)
          /\ payments[user.payment_id].product_name = NAME1

\* C23: a webhook request is answered 401 and writes nothing when a token is
\* configured and neither the header, the query parameter, the path segment
\* nor the body field (blanks around it removed) equals it; it is answered 400
\* and writes nothing when the order id is missing or email and phone are both
\* absent; with no token configured every request is authorized, and a match
\* in any one of the four places authorizes.
WebhookRejects ==
    [][\A req \in AuthRequests, now \in Times :
         LET matched == \/ req.header_token = config.WEBHOOK_TOKEN
                        \/ req.query_token = config.WEBHOOK_TOKEN
                        \/ strip(req.body_token) = config.WEBHOOK_TOKEN
                        \/ req.path_token = config.WEBHOOK_TOKEN
             authorized == config.WEBHOOK_TOKEN = NULL \/ matched
             missing == \/ strip(req.order_id) = NULL
                        \/ req.email = NULL /\ SelectSeq(req.phone, IsDigit) = <<>>
         IN  handle_prodamus(req, now)
             => /\ ~authorized => (reply'.kind = "401" /\ UNCHANGED db)
                /\ (authorized /\ missing) => (reply'.kind = "400" /\ UNCHANGED db)
                /\ (authorized /\ ~missing) => reply'.kind = "200"]_vars

\* with a token configured, a request has just been refused as unauthorized
\* after two others were accepted, one of them for a payment with no email
WebhookRejectsReached ==
    /\ config.WEBHOOK_TOKEN = TOKEN
    /\ reply.kind = "401"
    /\ Len(payments) = 2
    /\ \E i \in PaymentIds(payments) : payments[i].email = NULL

\* C24: the status a webhook stores is "paid" for success, succeeded, paid and
\* completed, "cancelled" for cancelled and canceled, "failed" for failed,
\* "pending" for pending, and for every other value the value itself, exactly
\* as received.
StatusStoredVerbatim ==
    [][\A req \in StatusRequests, now \in Times :
         handle_prodamus(req, now)
         => payments'[PaymentByOrder(payments', req.order_id)].status =
               (CASE req.status \in {SUCCESS, SUCCEEDED, PAID, COMPLETED} -> PAID
                  [] req.status \in {CANCELLED, CANCELED} -> CANCELLED
                  [] req.status = FAILED -> FAILED
                  [] req.status = PENDING -> PENDING
                  [] OTHER -> req.status)]_vars

\* C25: the audit log is append-only: no step changes or removes an entry, so
\* the log after a step has the log before it as a prefix, and so has the log
\* of every later state.
LogAppendOnly ==
    [][/\ Len(logs') >= Len(logs)
       /\ SubSeq(logs', 1, Len(logs)) = logs]_vars

\* a ban has just been logged after an earlier grant: the log holds the
\* "granted" entry of the join and then the "revoked" entry
LogAppendOnlyReached ==
    /\ call.op = "ban"
    /\ call.ok
    /\ Len(logs) = 2
    /\ logs[1].action = "granted"
    /\ logs[2].action = "revoked"

\* C26: only the most recent group row is consulted: setting a group appends a
\* row with no chat id, no step changes an older row, a join request adopts
\* its chat id into the most recent row only, a ban or unban is called for the
\* chat id of the most recent row, and while that row has no chat id a revoke
\* or restore of a bound identity fails with the unknown-chat answer, also
\* when an older row has one.
LatestGroupOnly ==
    [][/\ \A i \in 1..(Len(groups) - 1) : groups'[i] = groups[i]
       /\ \A sender \in Senders, g \in GroupInputs :
             (is_admin(sender) /\ set_group(sender, g[1], g[2]))
             => groups' = Append(groups, CurrentGroup(NULL, g[2], g[1]))
       /\ call'.op \in {"ban", "unban"}
             => /\ groups # <<>>
                /\ groups[Len(groups)].chat_id # NULL
                /\ call'.chat_id = ToInt(groups[Len(groups)].chat_id)
       /\ \A sender \in {s \in Senders : fsm[s] # "none"} :
          \A ok \in BOOLEAN, now \in Times :
             LET payment == AdminLookup(payments, ORDER1)
             IN  (/\ is_admin(sender)
                  /\ payment # NoPayment
                  /\ ~NoTarget(payment)
                  /\ ~SelfTarget(sender, payment)
                  /\ groups # <<>>
                  /\ groups[Len(groups)].chat_id = NULL
                  /\ \/ admin_remove_user(sender, ORDER1, ok, now)
                     \/ admin_unban_user(sender, ORDER1, ok, now))
                 => /\ reply'.kind = "chat_unknown"
                    /\ call' = NoCall
                    /\ UNCHANGED <<payments, users, groups, logs>>]_vars

\* a revoke or restore has just failed with the unknown-chat answer although
\* the older of two group rows has a chat id and the payment is held by
\* another identity than the administrator
LatestGroupOnlyReached ==
    /\ reply.kind = "chat_unknown"
    /\ call = NoCall
    /\ Len(groups) = 2
    /\ groups[1].chat_id # NULL
    /\ groups[2].chat_id = NULL
    /\ \E user \in users : user.payment_id # NoPayment /\ ~is_admin(ToInt(user.telegram_id))

\* C27: the export for start date S, end date E and an optional group name
\* returns exactly the audit entries with S <= timestamp < E plus one day, of
\* that group when one is named, each once, in ascending timestamp order; with
\* no such entry it reports that there is none.
ExportWindow ==
    \A start_raw \in {JAN01, JAN15}, end_raw \in {JAN01, JAN15}, raw_group \in ExportGroups :
        LET start_day == IF start_raw = JAN01 THEN Jan(1) ELSE Jan(15)
            end_day == IF end_raw = JAN01 THEN Jan(1) ELSE Jan(15)
            wanted == {i \in DOMAIN logs :
                         /\ midnight(start_day) <= logs[i].timestamp
                         /\ logs[i].timestamp < midnight(end_day + 1)
                         /\ raw_group = NAME1 => logs[i].group_name = NAME1}
        IN  \A answer \in ExportOutcomes(logs, start_raw, end_raw, raw_group) :
                IF wanted = {}
                THEN answer.kind = "no_records"
                ELSE /\ answer.kind = "document"
                     /\ {answer.rows[k].id : k \in DOMAIN answer.rows} = wanted
                     /\ Len(answer.rows) = Cardinality(wanted)
                     /\ \A k \in DOMAIN answer.rows : answer.rows[k] = Row(logs, answer.rows[k].id)
                     /\ \A k \in DOMAIN answer.rows, l \in DOMAIN answer.rows :
                           k < l => answer.rows[k].timestamp <= answer.rows[l].timestamp

\* an export has just returned one of two entries of one group: the entry of
\* 15 January at noon, and not the entry of 16 January at 00:00
ExportWindowReached ==
    /\ reply.kind = "document"
    /\ Len(reply.rows) = 1
    /\ reply.rows[1].timestamp = noon(Jan(15))
    /\ Len(logs) = 2
    /\ logs[1].group_name = logs[2].group_name
    /\ \E i \in DOMAIN logs : logs[i].timestamp = midnight(Jan(16))

\* one administrative operation sent by this sender: a command, a menu button or
\* a step of a menu flow
AdminOp(sender) ==
    \/ \E now \in Times : add_test_payment(sender, ORDER2, EMAIL1, NULL, now)
    \/ set_group(sender, LINK1, NAME1)
    \/ \E telegram_id \in TelegramIds : rebind_payment(sender, ORDER1, telegram_id)
    \/ \E query \in FindQueries : find_payment(sender, query)
    \/ \E start_raw \in FlowDates, raw_group \in {NULL, NAME1} : export_logs(sender, start_raw, JAN15, raw_group)
    \/ admin_remove_user_start(sender)
    \/ \E banned \in BOOLEAN, now \in Times : admin_remove_user(sender, ORDER1, banned, now)
    \/ admin_unban_user_start(sender)
    \/ \E unbanned \in BOOLEAN, now \in Times : admin_unban_user(sender, ORDER1, unbanned, now)
    \/ admin_set_group_start(sender)
    \/ admin_set_group_invite(sender, LINK2)
    \/ \E delivered \in BOOLEAN : admin_set_group_name(sender, NAME2, delivered)
    \/ admin_export_start(sender)
    \/ \E text \in FlowDates : admin_export_start_date(sender, text)
    \/ \E text \in FlowDates : admin_export_end_date(sender, text)
    \/ \E text \in FlowGroups, delivered \in BOOLEAN : admin_export_group_name(sender, text, delivered)
    \/ admin_find_payment_start(sender)
    \/ \E delivered \in BOOLEAN : admin_find_payment_query(sender, ORDER1, delivered)
    \/ admin_rebind_start(sender)
    \/ admin_rebind_key(sender, ORDER1)
    \/ \E telegram_id \in TelegramIds, delivered \in BOOLEAN : admin_rebind_telegram(sender, telegram_id, delivered)
    \/ admin_cancel(sender)

\* C28: an administrative operation (test payment, set group, rebind, find,
\* export, revoke, restore, as a command or through the menu) sent by somebody
\* who is not in the configured administrator set changes no payment, no
\* identity, no group and no audit entry, calls neither ban nor unban, and
\* leaves that sender's conversation where it was.
AdminOnly ==
    [][\A sender \in Senders \ config.ADMIN_IDS :
          \/ /\ UNCHANGED <<db, fsm, data>>
             /\ call' = NoCall
          \/ ~AdminOp(sender)]_vars

\* a payment is bound, a group is set and the log has an entry, and the last
\* event was answered with nothing and called nothing, as an administrative
\* operation of somebody who is no administrator is
AdminOnlyReached ==
    /\ reply = NoReply
    /\ call = NoCall
    /\ \E payment \in DOMAIN payments : payments[payment].used
    /\ users # {}
    /\ groups # <<>>
    /\ logs # <<>>

\* four digits, a dash, two digits, a dash, two digits
YYYY_MM_DD(text) ==
    /\ Len(text) = 10
    /\ \A i \in DOMAIN text : IF i \in {5, 8} THEN text[i] = "-" ELSE IsDigit(text[i])

\* C29: malformed input is rejected before any lookup and changes nothing. A
\* rebind, as a command or as the last step of the menu flow, whose target
\* identity is not all digits answers with neither outcome of the payment
\* lookup and leaves payments, identities, groups, audit log and the
\* conversation (still waiting for the identity) as they were; an export, as
\* a command or in the menu flow, with a date that is not of the form
\* YYYY-MM-DD answers that the date is wrong, reads no audit entry and does not
\* move on.
MalformedRejected ==
    [][\A sender \in Senders :
          /\ \A telegram_id \in {t \in TelegramIds : ~isdigit(t)} :
                \/ /\ UNCHANGED <<db, fsm, data>>
                   /\ reply'.kind \notin {"payment_not_found", "rebound"}
                \/ /\ ~rebind_payment(sender, ORDER1, telegram_id)
                   /\ \A delivered \in BOOLEAN : ~admin_rebind_telegram(sender, telegram_id, delivered)
          /\ \A text \in {t \in FlowDates : ~YYYY_MM_DD(t)} :
                \/ /\ UNCHANGED <<db, fsm, data>>
                   /\ reply'.kind \notin {"document", "no_records"}
                \/ /\ \A raw_group \in {NULL, NAME1} : ~export_logs(sender, text, JAN15, raw_group)
                   /\ ~admin_export_start_date(sender, text)
                   /\ ~admin_export_end_date(sender, text)]_vars

Orphans(pay, usr) ==
    {p \in DOMAIN pay : pay[p].used /\ \A user \in usr : user.payment_id # p}

\* C31: used is monotonic. No step takes a payment from used back to unused
\* or removes it, and a used payment that no identity holds is still held by
\* no identity after every step but a rebind by the administrator: no
\* self-service claim takes it.
UsedMonotonic ==
    [][/\ \A p \in DOMAIN payments :
             payments[p].used => p \in DOMAIN payments' /\ payments'[p].used
       /\ \/ Orphans(payments, users) \subseteq Orphans(payments', users')
          \/ reply'.kind = "rebound"]_vars

\* a claim of a paid, used payment that no identity holds has just been
\* refused as already used, while its former owner holds another payment
UsedMonotonicReached ==
    /\ reply.kind = "already_used"
    /\ \E p \in Orphans(payments, users) : payments[p].status = PAID
    /\ \E user \in users : user.payment_id # NoPayment

\* C32: a join request is approved, and its `granted` entry written, only for
\* the chat that is, or by this event becomes, the chat of an existing current
\* group; while no group is set, nothing is approved and nothing is written.
ApprovedOnlyCurrentGroup ==
    [][Len(logs') > Len(logs) /\ logs'[Len(logs')].action = "granted" =>
          /\ CurrentGroupId(groups) # 0
          /\ groups'[CurrentGroupId(groups)].chat_id = logs'[Len(logs')].group_id]_vars

\* the step has appended a `granted` entry for this identity
Granted(telegram_id) ==
    /\ Len(logs') = Len(logs) + 1
    /\ logs'[Len(logs')].action = "granted"
    /\ logs'[Len(logs')].telegram_id = telegram_id

PaidByDefault ==
    [][\A order_id \in OrderIds, status \in NoStatus, now \in Times :
          handle_prodamus(OrderRequest(order_id, status), now) =>
             LET id == PaymentByOrder(payments', order_id)
             IN  /\ id # NoPayment
                 /\ payments'[id].status = PAID
                 /\ PaymentByOrder(payments, order_id) = NoPayment =>
                       /\ ~payments'[id].used
                       /\ ClaimLookup(payments', order_id) = id]_vars

\* a webhook has just been accepted, one order is recorded as paid and not
\* yet used and the other as failed
PaidByDefaultReached ==
    /\ reply = Reply("200")
    /\ \E p \in DOMAIN payments, q \in DOMAIN payments :
          /\ payments[p].status = PAID
          /\ ~payments[p].used
          /\ payments[q].status = FAILED

\* the last step of one of the six flows, run for this sender: the group
\* name, the export's group filter, the key to find, the identity to rebind
\* to (all digits: another text is asked for again), the key to remove, the
\* key to unban
FinalStep(sender) ==
    \/ \E delivered \in BOOLEAN : admin_set_group_name(sender, NAME2, delivered)
    \/ \E text \in FlowGroups, delivered \in BOOLEAN : admin_export_group_name(sender, text, delivered)
    \/ \E delivered \in BOOLEAN : admin_find_payment_query(sender, ORDER1, delivered)
    \/ \E delivered \in BOOLEAN : admin_rebind_telegram(sender, Str(2), delivered)
    \/ \E banned \in BOOLEAN, now \in Times : admin_remove_user(sender, ORDER1, banned, now)
    \/ \E unbanned \in BOOLEAN, now \in Times : admin_unban_user(sender, ORDER1, unbanned, now)

\* C35: once the last step of a flow has run, the administrator's
\* conversation is idle, whether the operation succeeded or failed; and
\* Cancel in any awaiting state makes it idle and changes no payment, no
\* identity, no group and no audit entry.
FlowsEndIdle ==
    [][\A sender \in config.ADMIN_IDS :
          /\ fsm'[sender] = "none" \/ ~FinalStep(sender)
          /\ (fsm'[sender] = "none" /\ UNCHANGED db) \/ ~admin_cancel(sender)]_vars

====
